---- MODULE Spec2Model ----
(***************************************************************************)
(* Verification model of the G-Code Art Generator (src/script.js).         *)
(*                                                                         *)
(* Numbers.  JavaScript doubles are modelled in fixed point:               *)
(*   lengths and positions   1 unit = 0.01 mm                              *)
(*   emitted E values        1 unit = 0.00001 mm  (what toFixed(5) keeps)  *)
(*   darkness, thresholds    1 unit = 1/1000                               *)
(*   feed rates              mm/min                                        *)
(* Text is modelled as a sequence of one-character strings, so that        *)
(* split, join, toUpperCase and includes are computed character by         *)
(* character as the code computes them.                                    *)
(***************************************************************************)
EXTENDS Integers, Sequences, FiniteSets, TLC

VARIABLES
    \* ---- Hilbert curve enumeration (hilbert, processImageCore hilbert loop)
    order,          \* curve order passed to hilbert()
    d,              \* linear index last mapped
    cell,           \* hilbert(order, d)
    prevCell,       \* hilbert(order, d - 1) (the previous head cell)
    visited,        \* cells produced so far for indices 0..d
    \* ---- Template merge (mergeWithTemplate)
    gcodeTemplateContent,   \* appState.gcodeTemplateContent (Null or text)
    filamentChangeMode,     \* value of the #filamentChangeMode control
    artGcode,               \* the artwork block handed to mergeWithTemplate
    finalGcode,             \* what mergeWithTemplate returned (Null before)
    warnLog,                \* console.warn messages, in order
    \* ---- Artwork generation (processImageCore, doSmartMove, writeMove)
    cfg,            \* the run's parsed parameters and decoded image
    imageZoom,      \* appState.imageZoom, in tenths
    imageOffsetX,   \* appState.imageOffsetX, in 1/1000
    imageOffsetY,   \* appState.imageOffsetY, in 1/1000
    isDragging,     \* appState.isDragging
    viewEvents,     \* mousemove and wheel events handled so far
    innerRadius,    \* let innerRadius (clip margin once the base exists)
    prevX,          \* let prevX
    prevY,          \* let prevY
    totalVol,       \* running extruded volume; totalE = totalVol / filArea
    gcode,          \* the XY moves pushed to gcode[], in order
    loopI,          \* outer index of the pattern loop (i, or d for hilbert)
    loopK,          \* inner index of the pattern loop (k; 0 = connector due)
    pc,             \* position in processImageCore: idle, start, path, done,
                    \* failed
    artHistory,     \* the runs that ended, in order: parameters, outcome, output
    \* ---- Spiral pattern loop (processImageCore, pathType "spiral")
    spacing,        \* const spacing, in 0.01 mm
    maxRadius,      \* const maxRadius, in 0.001 mm
    radius,         \* let radius, in 0.001 mm
    angle,          \* let angle, in 0.00001 rad
    iterations,     \* let iterations
    spiralPoints,   \* doSmartMove calls made by the loop
    spiralWarned,   \* "Spiral hit max iterations" was logged
    spiralPc,       \* position: "idle", "loop", "after", "trailer", "done"
    spiralKind,     \* pathType of the run: "spiral" or "squareSpiral"
    currentSize,    \* let currentSize of the square spiral, in 0.01 mm
    spiralOut,      \* what the run published (NoOutput before)
    currentOffset,  \* let currentOffset of the square spiral, from centerOffset
    squareLast,     \* square spiral: the head before the loop, then the last point
                    \* passed to doSmartMove, from centerOffset
    \* ---- Brightness sampler (getBrightnessAtUV)
    sampleIn,       \* the arguments and view of a call, for two images
    sampleOut,      \* the two darkness values returned (NoSample before)
    \* ---- Run control (processImage, the timer callback, the triggers)
    originalImage,  \* appState.originalImage: "null", or an Image that is
                    \* "pending", "broken" or "loaded"
    form,           \* the parsed values of the width and speed inputs
    btnDisabled,    \* generateBtn.disabled
    btnLabel,       \* generateBtn.textContent: "generate" or "processing"
    downloadShown,  \* downloadBtn.style.display is not "none"
    spinnerShown,   \* a .loading-spinner element is in the document
    scheduled,      \* pending setTimeout callbacks of processImage
    accepted,       \* snapshot taken when the pending run was accepted
    runsStarted,    \* runs accepted so far (the id of the latest one)
    gcodeContent,   \* appState.gcodeContent: 0 for "", else the id of the run
    outputArea,     \* gcodeOutput.value, likewise
    errorToast,     \* the message of the toast shown last ("" for none)
    runLog,         \* what the latest trigger or run did
    downloaded,     \* what the latest download handed out (NoDownload: nothing)
    \* --- parameter parsing at the head of processImageCore ---
    parseIdx,       \* index in ParamTable of the next parameter to parse
    parseStop,      \* "idle", "running", "rejected" (validation return) or "done"
    parsed,         \* the parsed values later statements use (0.01 units)
    parsedLast,     \* the latest safeParse call: name, raw text, value, min, max
    \* --- base generators (generateCircularBase / SquareBase / RectangularBase) ---
    baseCfg,        \* params of the call
    basePc,         \* "idle", "layer", "walls", "wall", "fillStart", "fill", "returned"
    baseLayer,      \* let layer of the for loop
    baseWall,       \* let w of the wall loop
    baseI,          \* number of the next point of the wall being drawn
    baseYRel,       \* let yRel of the infill loop
    baseGoingRight, \* let goingRight of the infill loop
    basePrevX,      \* prevX, prevY of the generator, 0.01 mm
    basePrevY,
    baseOut,        \* the instructions pushed to gcode by the generator
    baseReturned,   \* the returned inner margin (-1 before the return)
    baseTotalE,     \* params.totalE, then totalE: the running total, as a volume
    baseArt,        \* the moves writeMove pushed after the base
    baseReported,   \* the total of the trailer, 0.01 mm (-1 before the trailer)
    \* --- the instruction list of a run and its merge (processImageCore) ---
    chCfg,          \* mode, base switch, origin, bed, slots, template
    chPc,           \* "idle", "begin", "base", "transition", "nobase", "pattern", "trailer", "done"
    chGcode,        \* let gcode: the lines pushed so far
    chFinal,        \* finalGcode (Null before the merge)
    \* --- the pixel cache (cleanup, the image loader, processImageCore) ---
    cacheImage,     \* appState.originalImage: NoImage for null, or an Image
    cachedPixels,   \* appState.cachedPixels: NoPixels for null, or the pixels
                    \* with the id of the image they were decoded from
    cachedDimensions, \* appState.cachedDimensions: NoDims for null
    readsPending,   \* the files whose FileReader has not called onload yet
    filesChosen,    \* files chosen so far (the id of the latest one)
    installed,      \* the files reader.onload has made the image, in order
    coreScheduled,  \* a setTimeout callback of processImage is pending
    runPixels       \* the pixels the latest run sampled (NoRunPixels: none)

hilbertVars == <<order, d, cell, prevCell, visited>>
mergeVars == <<gcodeTemplateContent, filamentChangeMode, artGcode, finalGcode, warnLog>>

viewVars == <<imageZoom, imageOffsetX, imageOffsetY, isDragging, viewEvents>>
artVars == <<cfg, innerRadius, prevX, prevY, totalVol, gcode, loopI, loopK, pc, artHistory>>

spiralVars == <<spacing, maxRadius, radius, angle, iterations, spiralPoints, spiralWarned, spiralPc,
               spiralKind, currentSize, spiralOut, currentOffset,
               squareLast>>
samplerVars == <<sampleIn, sampleOut>>
runVars == <<originalImage, form, btnDisabled, btnLabel, downloadShown, spinnerShown,
            scheduled, accepted, runsStarted, gcodeContent, outputArea, errorToast, runLog,
            downloaded>>
parseVars == <<parseIdx, parseStop, parsed, parsedLast>>
baseVars == <<baseCfg, basePc, baseLayer, baseWall, baseI, baseYRel, baseGoingRight, basePrevX, basePrevY, baseOut, baseReturned, baseTotalE, baseArt, baseReported>>
chVars == <<chCfg, chPc, chGcode, chFinal>>
cacheVars == <<cacheImage, cachedPixels, cachedDimensions, readsPending, filesChosen, installed,
              coreScheduled, runPixels>>
vars == <<hilbertVars, mergeVars, artVars, spiralVars, samplerVars, runVars, viewVars, parseVars, baseVars, chVars, cacheVars>>

----------------------------------------------------------------------------
(* Generic helpers *)

Max(a, b) == IF a >= b THEN a ELSE b
Min(a, b) == IF a <= b THEN a ELSE b
Abs(a) == IF a < 0 THEN -a ELSE a

RECURSIVE Pow(_, _)
Pow(b, e) == IF e = 0 THEN 1 ELSE b * Pow(b, e - 1)

\* a / b rounded to the nearest integer (b > 0): fixed-point division
RoundDiv(a, b) == (2 * a + b) \div (2 * b)

\* floor of the square root, by bisection on [lo, hi)
RECURSIVE SqrtBetween(_, _, _)
SqrtBetween(n, lo, hi) ==
    IF hi - lo <= 1 THEN lo
    ELSE LET mid == (lo + hi) \div 2
         IN  IF mid * mid <= n THEN SqrtBetween(n, mid, hi)
             ELSE SqrtBetween(n, lo, mid)

\* square root rounded to the nearest integer (n < 2^30)
RoundSqrt(n) ==
    LET r == SqrtBetween(n, 0, 32768)
    IN  IF n - r * r > r THEN r + 1 ELSE r

\* Math.hypot in fixed point
Hypot(dx, dy) == RoundSqrt(dx * dx + dy * dy)

----------------------------------------------------------------------------
(* hilbert(order, d): src/script.js 238-261 *)

\* bounds of the enumeration
MaxOrder == 4

\* plausible slip: "|" written for "^" in the ry computation
HilbertBodyOrBug(s, x, y, t) ==
    LET rx == (t \div 2) % 2
        ry == IF (t % 2) = 1 \/ rx = 1 THEN 1 ELSE 0
        refl == ry = 0 /\ rx = 1
        x1 == IF refl THEN s - 1 - x ELSE x
        y1 == IF refl THEN s - 1 - y ELSE y
        x2 == IF ry = 0 THEN y1 ELSE x1
        y2 == IF ry = 0 THEN x1 ELSE y1
    IN  [x |-> x2 + s * rx, y |-> y2 + s * ry, t |-> t \div 4]

\* plausible slip: the quadrant rotation (reflect + swap) left out
HilbertBodyNoRot(s, x, y, t) ==
    LET rx == (t \div 2) % 2
        ry == ((t % 2) + rx) % 2
    IN  [x |-> x + s * rx, y |-> y + s * ry, t |-> t \div 4]

\* one pass of the for-loop body (lines 246-258) at scale s
HilbertBody(s, x, y, t) ==
    LET rx == (t \div 2) % 2                 \* 1 & (t / 2)
        ry == ((t % 2) + rx) % 2             \* 1 & (t ^ rx)
        refl == ry = 0 /\ rx = 1
        x1 == IF refl THEN s - 1 - x ELSE x
        y1 == IF refl THEN s - 1 - y ELSE y
        x2 == IF ry = 0 THEN y1 ELSE x1      \* [x, y] = [y, x]
        y2 == IF ry = 0 THEN x1 ELSE y1
    IN  [x |-> x2 + s * rx, y |-> y2 + s * ry, t |-> t \div 4]

RECURSIVE HilbertLoop(_, _, _, _, _)
HilbertLoop(s, n, x, y, t) ==
    IF s < n
    THEN LET r == HilbertBody(s, x, y, t)
         IN  HilbertLoop(s * 2, n, r.x, r.y, r.t)
    ELSE [x |-> x, y |-> y]

hilbert(o, idx) == HilbertLoop(1, Pow(2, o), 0, 0, idx)

Grid(o) == [x : 0 .. Pow(2, o) - 1, y : 0 .. Pow(2, o) - 1]

Chebyshev(p, q) == Max(Abs(p.x - q.x), Abs(p.y - q.y))

HilbertInit ==
    /\ order \in 0 .. MaxOrder
    /\ d = 0
    /\ cell = hilbert(order, 0)
    /\ prevCell = hilbert(order, 0)
    /\ visited = {hilbert(order, 0)}

\* one iteration of "for (let d = 1; d < totalPoints; d++)" (lines 1486-1489),
\* restricted to the index -> cell mapping
HilbertNext ==
    /\ d + 1 < Pow(4, order)
    /\ d' = d + 1
    /\ cell' = hilbert(order, d + 1)
    /\ prevCell' = cell
    /\ visited' = visited \cup {hilbert(order, d + 1)}
    /\ UNCHANGED order


----------------------------------------------------------------------------
(* Text: strings as sequences of one-character strings *)

\* null / undefined (never equal to a text, whose elements are single characters)
Null == <<"null">>

LowerChars ==
    <<"a", "b", "c", "d", "e", "f", "g", "h", "i", "j", "k", "l", "m",
      "n", "o", "p", "q", "r", "s", "t", "u", "v", "w", "x", "y", "z">>
UpperChars ==
    <<"A", "B", "C", "D", "E", "F", "G", "H", "I", "J", "K", "L", "M",
      "N", "O", "P", "Q", "R", "S", "T", "U", "V", "W", "X", "Y", "Z">>

\* String.prototype.toUpperCase, one character
UpperChar(c) ==
    IF \E i \in 1 .. 26 : LowerChars[i] = c
    THEN UpperChars[CHOOSE i \in 1 .. 26 : LowerChars[i] = c]
    ELSE c

\* String.prototype.toUpperCase
ToUpperCase(line) == [i \in 1 .. Len(line) |-> UpperChar(line[i])]

\* String.prototype.includes
Includes(line, pat) ==
    \E i \in 1 .. (Len(line) - Len(pat) + 1) :
        SubSeq(line, i, i + Len(pat) - 1) = pat

\* String.prototype.split(/\r?\n/): every "\n" ends a line, and a "\r"
\* right before it belongs to the separator
SplitLines(text) ==
    LET n == Len(text)
        nl == {i \in 1 .. n : text[i] = "\n"}
        cnt == Cardinality(nl)
        pos(k) == CHOOSE i \in nl : Cardinality({j \in nl : j < i}) = k - 1
        first(k) == IF k = 1 THEN 1 ELSE pos(k - 1) + 1
        last(k) == IF k = cnt + 1 THEN n
                   ELSE IF pos(k) > first(k) /\ text[pos(k) - 1] = "\r"
                        THEN pos(k) - 2
                        ELSE pos(k) - 1
    IN  [k \in 1 .. cnt + 1 |-> SubSeq(text, first(k), last(k))]

\* Array.prototype.join(sep)
RECURSIVE Join(_, _)
Join(lines, sep) ==
    IF Len(lines) = 0 THEN <<>>
    ELSE IF Len(lines) = 1 THEN lines[1]
    ELSE lines[1] \o sep \o Join(Tail(lines), sep)

\* Array.prototype.slice(from, to): 0-based, end exclusive
Slice(lines, from, to) == SubSeq(lines, from + 1, Min(to, Len(lines)))

NL == <<"\n">>

----------------------------------------------------------------------------
(* mergeWithTemplate: src/script.js 1982-2026 *)

START_MARKER ==
    <<";", "S", "T", "A", "R", "T", "_", "A", "R", "T">>
END_MARKER ==
    <<";", "E", "N", "D", "_", "A", "R", "T">>
MANUAL_PAUSE ==
    <<"\n", ";", " ", "-", "-", "-", " ", "M", "A", "N", "U", "A", "L",
      " ", "P", "A", "U", "S", "E", " ", "-", "-", "-", "\n", "M", "6",
      "0", "0", "\n">>
ART_OPEN ==
    <<"\n", ";", " ", "-", "-", "-", " ", "S", "T", "A", "R", "T", " ",
      "A", "R", "T", "W", "O", "R", "K", " ", "-", "-", "-", "\n">>
ART_CLOSE ==
    <<"\n", ";", " ", "-", "-", "-", " ", "E", "N", "D", " ", "A", "R",
      "T", "W", "O", "R", "K", " ", "-", "-", "-", "\n">>
WARN_NO_START == "Marker ;START_ART not found in template"

\* plausible slip: the line is compared without toUpperCase()
LineHasMarkerCaseSensitive(rawLine, marker) == Includes(rawLine, marker)

\* plausible slip: the line must equal the marker
LineHasMarkerWholeLine(rawLine, marker) == ToUpperCase(rawLine) = marker

\* lines 1992-1999: lines[i].toUpperCase().includes(marker)
LineHasMarker(rawLine, marker) == Includes(ToUpperCase(rawLine), marker)

\* lines 1991-2000: the loop overwrites the index at every matching line, so
\* the result is the 0-based index of the last matching line, or -1
FindMarker(lines, marker) ==
    LET hits == {i \in 1 .. Len(lines) : LineHasMarker(lines[i], marker)}
    IN  IF hits = {} THEN -1
        ELSE (CHOOSE i \in hits : \A j \in hits : j <= i) - 1

\* line 2007
Header(lines, startIndex) == Join(Slice(lines, 0, startIndex + 1), NL)

\* plausible slip: the footer fallback starts at the start-marker line itself
FooterDuplicatingStart(lines, startIndex, endIndex) ==
    IF endIndex # -1 /\ endIndex > startIndex
    THEN Join(Slice(lines, endIndex, Len(lines)), NL)
    ELSE Join(Slice(lines, startIndex, Len(lines)), NL)

\* plausible slip: the end-marker line is left out of the footer
FooterSkippingEnd(lines, startIndex, endIndex) ==
    IF endIndex # -1 /\ endIndex > startIndex
    THEN Join(Slice(lines, endIndex + 1, Len(lines)), NL)
    ELSE Join(Slice(lines, startIndex + 1, Len(lines)), NL)

\* plausible slip: any end marker is honoured, wherever it lies
FooterAnyEnd(lines, startIndex, endIndex) ==
    IF endIndex # -1
    THEN Join(Slice(lines, endIndex, Len(lines)), NL)
    ELSE Join(Slice(lines, startIndex + 1, Len(lines)), NL)

\* lines 2009-2014
Footer(lines, startIndex, endIndex) ==
    IF endIndex # -1 /\ endIndex > startIndex
    THEN Join(Slice(lines, endIndex, Len(lines)), NL)
    ELSE Join(Slice(lines, startIndex + 1, Len(lines)), NL)

\* lines 2016-2021
ChangeCommand(mode) == IF mode = "manual" THEN MANUAL_PAUSE ELSE <<>>

\* plausible slip: the artwork replaces the template when the marker is missing
AppendFallbackDroppingTemplate(template, art) == art

\* line 2004
AppendFallback(template, art) == template \o NL \o art

\* the whole function: [out |-> returned text, warn |-> console.warn calls]
MergeWithTemplate(template, mode, art) ==
    IF template = Null \/ template = <<>>
    THEN [out |-> art, warn |-> <<>>]
    ELSE
      LET lines == SplitLines(template)
          startIndex == FindMarker(lines, START_MARKER)
          endIndex == FindMarker(lines, END_MARKER)
      IN  IF startIndex = -1
          THEN [out |-> AppendFallback(template, art), warn |-> <<WARN_NO_START>>]
          ELSE [out |-> Header(lines, startIndex) \o ChangeCommand(mode) \o ART_OPEN
                          \o art \o ART_CLOSE \o Footer(lines, startIndex, endIndex),
                warn |-> <<>>]

----------------------------------------------------------------------------
(* Inputs of the merge: templates, modes, artwork blocks *)

MaxTemplateLines == 3

L_A ==
    <<"A">>
L_START ==
    <<";", "S", "T", "A", "R", "T", "_", "A", "R", "T">>
L_END ==
    <<";", "E", "N", "D", "_", "A", "R", "T">>
L_START_MIXED ==
    <<"g", ";", "S", "t", "a", "r", "t", "_", "A", "r", "t">>
L_END_LOWER ==
    <<"m", ";", "e", "n", "d", "_", "a", "r", "t", " ">>
L_BOTH ==
    <<";", "S", "T", "A", "R", "T", "_", "A", "R", "T", ";", "E", "N", "D",
      "_", "A", "R", "T">>
L_NEAR ==
    <<";", "S", "T", "A", "R", "T", "_", "A", "R">>
CRLF ==
    <<"\r", "\n">>
ART_ONE ==
    <<"A", "R", "T">>
ART_TWO ==
    <<"G", "0", "\n", "G", "1">>
TEMPLATE_ROUND_TRIP ==
    <<"A", "\n", ";", "S", "T", "A", "R", "T", "_", "A", "R", "T", "\n",
      "X", "\n", ";", "E", "N", "D", "_", "A", "R", "T", "\n", "B">>

LinePool == {L_A, L_START, L_END, L_START_MIXED, L_END_LOWER, L_BOTH, L_NEAR}

\* a template file: up to MaxTemplateLines lines, LF or CRLF line ends
Templates ==
    {TEMPLATE_ROUND_TRIP} \cup
    {Join(ls, eol) : ls \in UNION {[1 .. n -> LinePool] : n \in 1 .. MaxTemplateLines},
                     eol \in {NL, CRLF}}

\* values of the filament-change control compared at lines 1257, 2019
Modes == {"manual", "ams"}

Arts == {ART_ONE, ART_TWO}

MergeIdle ==
    /\ gcodeTemplateContent = Null
    /\ filamentChangeMode = "manual"
    /\ artGcode = <<>>
    /\ finalGcode = Null
    /\ warnLog = <<>>

\* a session in which a template may have been loaded (reader.onload, line 660),
\* a mode selected, and an artwork block is about to be merged
MergeInit ==
    /\ gcodeTemplateContent \in Templates \cup {Null}
    /\ filamentChangeMode \in Modes
    /\ artGcode \in Arts
    /\ finalGcode = Null
    /\ warnLog = <<>>

\* line 1642: const finalGcode = mergeWithTemplate(artOnlyGcode)
MergeRun ==
    /\ finalGcode = Null
    /\ LET r == MergeWithTemplate(gcodeTemplateContent, filamentChangeMode, artGcode)
       IN  /\ finalGcode' = r.out
           /\ warnLog' = warnLog \o r.warn
    /\ UNCHANGED <<gcodeTemplateContent, filamentChangeMode, artGcode>>

----------------------------------------------------------------------------
(* processImageCore: derived geometry, src/script.js 1148-1231 *)

\* line 1149 / 1150
OffsetX(c) == IF c.originAtCenter THEN -(c.printWidth \div 2)
              ELSE (c.bedWidth - c.printWidth) \div 2
OffsetY(c) == IF c.originAtCenter THEN -(c.printHeight \div 2)
              ELSE (c.bedHeight - c.printHeight) \div 2

\* line 1151: Math.PI * (filamentDia / 2)^2, with pi = 355/113
FilArea(c) == RoundDiv(355 * c.filamentDia * c.filamentDia, 113 * 4)

\* lines 1155-1158
PrintDim(c) == Min(c.printWidth, c.printHeight)
BaseRadius(c) == PrintDim(c) \div 2
CenterX(c) == OffsetX(c) + c.printWidth \div 2
CenterY(c) == OffsetY(c) + c.printHeight \div 2

\* lines 1215-1218
CenterOffset(c) ==
    [x |-> OffsetX(c) + (c.printWidth - PrintDim(c)) \div 2,
     y |-> OffsetY(c) + (c.printHeight - PrintDim(c)) \div 2]

\* hilbert grid cell -> print coordinates (lines 1225-1227, 1484-1488)
HilbertPoint(c, idx) ==
    LET N == Pow(2, c.fractalOrder)
        p == hilbert(c.fractalOrder, idx)
    IN  [x |-> CenterOffset(c).x + RoundDiv(p.x * PrintDim(c), N),
         y |-> CenterOffset(c).y + RoundDiv(p.y * PrintDim(c), N)]

\* lines 1214-1228
StartPoint(c) ==
    IF c.pathType \in {"spiral", "squareSpiral"}
    THEN [x |-> CenterX(c), y |-> CenterY(c)]
    ELSE IF c.pathType = "hilbert" THEN HilbertPoint(c, 0)
    ELSE [x |-> OffsetX(c), y |-> OffsetY(c)]

\* wallSpacing (0.42 mm) and numWalls of the base generators
WALL_SPACING == 42
NUM_WALLS == 3

\* what generate*Base returns (lines 771, 888, 1015) for lines 1289-1296
BaseInnerMargin(c) ==
    IF c.pathType = "spiral" THEN c.baseMargin
    ELSE c.baseMargin + NUM_WALLS * WALL_SPACING

----------------------------------------------------------------------------
(* getBrightnessAtUV: src/script.js 368-403.  u, v and the result in 1/1000 *)

Clamp(lo, hi, v) == Max(lo, Min(hi, v))

\* lines 387-390, times 3: pixels[idx] + pixels[idx + 1] + pixels[idx + 2]
PixelBrightness3(pixels, anaW, px, py) ==
    LET idx == (py * anaW + px) * 4
    IN  pixels[idx + 1] + pixels[idx + 2] + pixels[idx + 3]

\* line 400: Math.pow(val, 1.0 / gammaVal); gamma in tenths, for the two
\* values whose exponent is an integer (gamma 1.0 and gamma 0.5)
GammaPow(val, gammaVal) ==
    IF gammaVal = 5 THEN RoundDiv(val * val, 1000) ELSE val

\* lines 369-385: the source position, its four neighbours and the
\* interpolation fractions tx, ty (in 1/1000)
SamplePoint(u_print, v_print_yup, anaW, anaH, zoom, offX, offY) ==
    LET v_print_ydown == 1000 - v_print_yup
        u_source == Clamp(0, 1000, RoundDiv(u_print * 10, zoom) + offX)
        v_source == Clamp(0, 1000, RoundDiv(v_print_ydown * 10, zoom) + offY)
        xf == u_source * (anaW - 1)
        yf == v_source * (anaH - 1)
        x0 == xf \div 1000
        y0 == yf \div 1000
    IN  [x0 |-> x0, y0 |-> y0,
         x1 |-> Min(x0 + 1, anaW - 1), y1 |-> Min(y0 + 1, anaH - 1),
         tx |-> xf - x0 * 1000, ty |-> yf - y0 * 1000]

\* lines 392-397: the bilinear weights in 1/1000 each, so the result is
\* 3 * avgColor * 1000 * 1000
AvgColor3(sp, pixels, anaW) ==
    PixelBrightness3(pixels, anaW, sp.x0, sp.y0) * (1000 - sp.tx) * (1000 - sp.ty)
    + PixelBrightness3(pixels, anaW, sp.x1, sp.y0) * sp.tx * (1000 - sp.ty)
    + PixelBrightness3(pixels, anaW, sp.x0, sp.y1) * (1000 - sp.tx) * sp.ty
    + PixelBrightness3(pixels, anaW, sp.x1, sp.y1) * sp.tx * sp.ty

GetBrightnessAtUV(u_print, v_print_yup, pixels, anaW, anaH, gammaVal, zoom, offX, offY) ==
    LET sp == SamplePoint(u_print, v_print_yup, anaW, anaH, zoom, offX, offY)
        val == RoundDiv(AvgColor3(sp, pixels, anaW), 3 * 255 * 1000)
    IN  1000 - GammaPow(val, gammaVal)

(* The same function without the rounding to 1/1000: a double holds the    *)
(* values below exactly enough to order them, so the darkness is kept as a *)
(* fraction num/den whose denominator depends on the position and on gamma *)
(* only.                                                                   *)

RECURSIVE GCD(_, _)
GCD(a, b) == IF b = 0 THEN a ELSE GCD(b, a % b)

\* the largest unit the four bilinear weights of a position are multiples of
WeightUnit(sp) ==
    GCD(GCD((1000 - sp.tx) * (1000 - sp.ty), sp.tx * (1000 - sp.ty)),
        GCD((1000 - sp.tx) * sp.ty, sp.tx * sp.ty))

\* avgColor / 255 as the fraction n / dn
ValOf(sp, pixels, anaW) ==
    [n |-> AvgColor3(sp, pixels, anaW) \div WeightUnit(sp),
     dn |-> 3 * 255 * (1000000 \div WeightUnit(sp))]

\* slip: the inversion left out (brightness returned instead of darkness)
DarknessOfValNotInverted(n, dn, gammaVal) ==
    LET k == IF gammaVal = 5 THEN 2 ELSE 1
    IN  [num |-> Pow(n, k), den |-> Pow(dn, k)]

\* lines 400-402: 1.0 - Math.pow(val, 1.0 / gammaVal), for gamma 1.0 and 0.5
DarknessOfVal(n, dn, gammaVal) ==
    LET k == IF gammaVal = 5 THEN 2 ELSE 1
    IN  [num |-> Pow(dn, k) - Pow(n, k), den |-> Pow(dn, k)]

GetBrightnessExact(u_print, v_print_yup, pixels, anaW, anaH, gammaVal, zoom, offX, offY) ==
    LET sp == SamplePoint(u_print, v_print_yup, anaW, anaH, zoom, offX, offY)
        val == ValOf(sp, pixels, anaW)
    IN  DarknessOfVal(val.n, val.dn, gammaVal)

\* a decoded 2 x 2 RGBA image from four RGB triples
Rgb4(p) ==
    <<p[1][1], p[1][2], p[1][3], 255, p[2][1], p[2][2], p[2][3], 255,
      p[3][1], p[3][2], p[3][3], 255, p[4][1], p[4][2], p[4][3], 255>>

\* black, the darkest non-black colour, white
SampleColours == {<<0, 0, 0>>, <<1, 0, 0>>, <<255, 255, 255>>}

\* sampled positions (1/1000) and views: zoom 1, zoom 2 at the origin,
\* zoom 2 panned to the far corner
SampleCoords == {0, 500, 1000}
SampleViews == {<<10, 0, 0>>, <<20, 0, 0>>, <<20, 500, 500>>}

NoSample == [num |-> -1]

SamplerIdle ==
    /\ sampleIn = [gammaVal |-> 0]
    /\ sampleOut = NoSample

\* two images that differ in at most one pixel, sampled at one position
\* under one view and one gamma
SamplerInit ==
    /\ \E p \in [1 .. 4 -> SampleColours], i \in 1 .. 4, col \in SampleColours,
          u \in SampleCoords, v \in SampleCoords, view \in SampleViews, g \in {10, 5} :
          sampleIn = [pixelsA |-> Rgb4(p), pixelsB |-> Rgb4([p EXCEPT ![i] = col]),
                      u |-> u, v |-> v, gammaVal |-> g,
                      zoom |-> view[1], offX |-> view[2], offY |-> view[3]]
    /\ sampleOut = NoSample

\* getBrightnessAtUV is applied to both images
SampleBoth ==
    /\ sampleOut = NoSample
    /\ LET i == sampleIn
           sp == SamplePoint(i.u, i.v, 2, 2, i.zoom, i.offX, i.offY)
           a == GetBrightnessExact(i.u, i.v, i.pixelsA, 2, 2, i.gammaVal, i.zoom, i.offX, i.offY)
           b == GetBrightnessExact(i.u, i.v, i.pixelsB, 2, 2, i.gammaVal, i.zoom, i.offX, i.offY)
       IN  sampleOut' = [num |-> a.num, den |-> a.den, numB |-> b.num, denB |-> b.den,
                         lumA |-> ValOf(sp, i.pixelsA, 2).n, lumB |-> ValOf(sp, i.pixelsB, 2).n,
                         interpolated |-> sp.tx # 0 \/ sp.ty # 0]
    /\ UNCHANGED sampleIn

----------------------------------------------------------------------------
(* writeMove: src/script.js 1355-1384.  The head is [x, y, vol, out]:      *)
(* prevX, prevY, the extruded volume so far and the moves pushed so far.   *)

\* e.toFixed(5): vol / filArea in units of 0.00001 mm, rounded
EFixed5(vol, filArea) ==
    (vol \div filArea) * 1000 + RoundDiv((vol % filArea) * 1000, filArea)

Move(kind, x, y, e, f, w, dark, conn) ==
    [kind |-> kind, x |-> x, y |-> y, e |-> e, f |-> f, w |-> w,
     dark |-> dark, conn |-> conn]

\* plausible slip: the layer height left out of the volume
WriteMoveNoLayerHeight(c, h, x, y, targetW, targetF, isTravel, dark, conn) ==
    LET dist == Hypot(x - h.x, y - h.y)
    IN  IF isTravel \/ dist < 1
        THEN [h EXCEPT !.x = x, !.y = y,
                       !.out = Append(@, Move("G0", x, y, 0, 6000, targetW, dark, conn))]
        ELSE LET vol == dist * targetW
             IN  [x |-> x, y |-> y, vol |-> h.vol + vol,
                  out |-> Append(h.out, Move("G1", x, y, EFixed5(vol, FilArea(c)),
                                             targetF, targetW, dark, conn))]

\* dark and conn are not part of the emitted line: they record, for the
\* properties below, the darkness sampled for the move (-1: none sampled)
\* and whether the caller passed isConnect
WriteMove(c, h, x, y, targetW, targetF, isTravel, dark, conn) ==
    LET dist == Hypot(x - h.x, y - h.y)
    IN  IF isTravel \/ dist < 1                      \* dist < 0.01
        THEN [h EXCEPT !.x = x, !.y = y,
                       !.out = Append(@, Move("G0", x, y, 0, 6000, targetW, dark, conn))]
        ELSE LET vol == dist * targetW * c.layerHeight
             IN  [x |-> x, y |-> y, vol |-> h.vol + vol,
                  out |-> Append(h.out, Move("G1", x, y, EFixed5(vol, FilArea(c)),
                                             targetF, targetW, dark, conn))]

----------------------------------------------------------------------------
(* isInsideBaseClip: src/script.js 1386-1409 *)

IsInsideBaseClip(c, inner, x, y) ==
    IF c.pathType = "spiral"
    THEN Hypot(x - CenterX(c), y - CenterY(c)) <= BaseRadius(c) - inner
    ELSE IF c.pathType \in {"squareSpiral", "hilbert"}
    THEN /\ x >= CenterOffset(c).x + inner
         /\ x <= CenterOffset(c).x + PrintDim(c) - inner
         /\ y >= CenterOffset(c).y + inner
         /\ y <= CenterOffset(c).y + PrintDim(c) - inner
    ELSE /\ x >= OffsetX(c) + inner
         /\ x <= OffsetX(c) + c.printWidth - inner
         /\ y >= OffsetY(c) + inner
         /\ y <= OffsetY(c) + c.printHeight - inner

----------------------------------------------------------------------------
(* doSmartMove: src/script.js 1411-1477 *)

\* Math.sin at k twentieths of a turn, in 1/1000
SinTable == <<0, 309, 588, 809, 951, 1000, 951, 809, 588, 309>>
SinTurn20(k) == IF k % 20 < 10 THEN SinTable[(k % 20) + 1] ELSE -SinTable[(k % 20) - 9]

\* lines 1462-1475: sub-segments i .. numSegments of one squiggled segment
RECURSIVE SquiggleFrom(_, _, _, _, _, _, _, _, _, _, _)
SquiggleFrom(c, h, i, numSegments, startX, startY, x, y, targetW, targetF, darkness) ==
    IF i > numSegments THEN h
    ELSE
      LET distTotal == Hypot(x - startX, y - startY)
          \* unit normal (-dy, dx) / norm, in 1/1000
          dx_perp == RoundDiv(-(y - startY) * 1000, distTotal)
          dy_perp == RoundDiv((x - startX) * 1000, distTotal)
          amplitude == c.squiggleAmp * darkness              \* in 1/1000 units
          currentDist == RoundDiv(i * distTotal, numSegments)
          px_straight == startX + RoundDiv((x - startX) * i, numSegments)
          py_straight == startY + RoundDiv((y - startY) * i, numSegments)
          \* phase = currentDist * squiggleFreq * 2 pi, in twentieths of a turn
          phase == RoundDiv(currentDist * c.squiggleFreq, 50)
          offsetMag == RoundDiv(SinTurn20(phase) * amplitude, 1000 * 1000)
          px_squiggle == px_straight + RoundDiv(dx_perp * offsetMag, 1000)
          py_squiggle == py_straight + RoundDiv(dy_perp * offsetMag, 1000)
          h2 == WriteMove(c, h, px_squiggle, py_squiggle, targetW, targetF, FALSE,
                          darkness, FALSE)
      IN  SquiggleFrom(c, h2, i + 1, numSegments, startX, startY, x, y,
                       targetW, targetF, darkness)

\* plausible slip: "<=" for "<" in the text-mode threshold test
TextBelowThresholdInclusive(darkness, textThreshold) == darkness <= textThreshold

\* line 1431
TextBelowThreshold(darkness, textThreshold) == darkness < textThreshold

\* slip: the width mapping turned round (darker gives thinner)
TargetWInverted(c, darkness) == c.maxW - RoundDiv(darkness * (c.maxW - c.minW), 1000)

\* line 1441: targetW = minW + darkness * (maxW - minW), darkness in 1/1000
TargetW(c, darkness) == c.minW + RoundDiv(darkness * (c.maxW - c.minW), 1000)

\* line 1442: targetF = maxSpeed - darkness * (maxSpeed - minSpeed)
TargetF(c, darkness) == c.maxSpeed - RoundDiv(darkness * (c.maxSpeed - c.minSpeed), 1000)

DoSmartMove(c, inner, zoom, offX, offY, h, x, y, isConnect) ==
    IF c.addCircularBase /\ ~IsInsideBaseClip(c, inner, x, y)
    THEN WriteMove(c, h, x, y, 0, 0, TRUE, -1, isConnect)
    ELSE
      LET u == RoundDiv((x - OffsetX(c)) * 1000, c.printWidth)
          v_yup == RoundDiv((y - OffsetY(c)) * 1000, c.printHeight)
          u_sample == IF c.mirrorimage THEN 1000 - u ELSE u
          darkness == GetBrightnessAtUV(u_sample, v_yup, c.pixels, c.anaW, c.anaH,
                                        c.gammaVal, zoom, offX, offY)
          targetW == TargetW(c, darkness)
          targetF == TargetF(c, darkness)
          useSquiggle == c.squiggleAmp > 1                   \* squiggleAmp > 0.01
      IN  IF c.textMode /\ ~isConnect
          THEN IF TextBelowThreshold(darkness, c.textThreshold)
               THEN WriteMove(c, h, x, y, 0, 0, TRUE, darkness, isConnect)
               ELSE WriteMove(c, h, x, y, c.maxW, c.minSpeed, FALSE, darkness, isConnect)
          ELSE IF isConnect \/ ~useSquiggle \/ darkness < 100
          THEN WriteMove(c, h, x, y, targetW, targetF, isConnect, darkness, isConnect)
          ELSE LET distTotal == Hypot(x - h.x, y - h.y)
                   numSegments == Max(2, distTotal \div 10)  \* floor(distTotal / 0.1)
               IN  SquiggleFrom(c, h, 1, numSegments, h.x, h.y, x, y,
                                targetW, targetF, darkness)

----------------------------------------------------------------------------
(* Runs of the artwork generator: parameters, images, pattern loops *)

\* a decoded 2 x 2 RGBA image whose four pixels are the given grey levels
Grey4(a, b, cc, dd) ==
    <<a, a, a, 255, b, b, b, 255, cc, cc, cc, 255, dd, dd, dd, 255>>

\* uniform grey 153 (darkness 0.4), black, white, black-to-white and
\* grey-153-to-white left to right
Images == {Grey4(153, 153, 153, 153), Grey4(0, 0, 0, 0), Grey4(255, 255, 255, 255),
           Grey4(0, 255, 0, 255), Grey4(153, 255, 153, 255)}

\* parameter values as processImageCore has them after parsing (lines
\* 1072-1124): lengths in 0.01 mm, speeds in mm/min, gamma and squiggleFreq
\* in tenths, textThreshold in 1/1000
\* (the square spiral is run without the squiggle)
Configs ==
    {c \in [pathType : {"zigzag", "hilbert", "squareSpiral"},
            bedWidth : {25000}, bedHeight : {25000},
            originAtCenter : BOOLEAN,
            printWidth : {400}, printHeight : {400},
            spacing : {100},
            minW : {20}, maxW : {80},
            minSpeed : {600}, maxSpeed : {6000},
            gammaVal : {10, 5},
            squiggleAmp : {0, 100}, squiggleFreq : {10},
            fractalOrder : {3},
            addCircularBase : BOOLEAN, baseMargin : {0, 24},
            textMode : BOOLEAN, textThreshold : {400},
            mirrorimage : BOOLEAN,
            layerHeight : {20}, filamentDia : {175},
            pixels : Images, anaW : {2}, anaH : {2}] :
        /\ c.baseMargin # 0 => c.addCircularBase
        /\ c.mirrorimage => c.pixels = Grey4(0, 255, 0, 255) /\ ~c.originAtCenter
        /\ c.gammaVal = 5 => c.pixels = Grey4(153, 153, 153, 153) /\ ~c.originAtCenter
        /\ c.originAtCenter => c.pathType = "zigzag" /\ ~c.textMode
        /\ c.pathType = "squareSpiral" => c.squiggleAmp = 0}

NoConfig == [pathType |-> "none"]

ArtIdle ==
    /\ cfg = NoConfig
    /\ innerRadius = 0
    /\ prevX = 0 /\ prevY = 0
    /\ totalVol = 0
    /\ gcode = <<>>
    /\ loopI = 0 /\ loopK = 0
    /\ pc = "idle"
    /\ artHistory = <<>>

\* processImageCore has parsed its parameters and decoded the image
\* (lines 1069-1160)
ArtInit ==
    /\ cfg \in Configs
    /\ innerRadius = 0
    /\ prevX = 0 /\ prevY = 0
    /\ totalVol = 0
    /\ gcode = <<>>
    /\ loopI = 0 /\ loopK = 0
    /\ pc = "start"
    /\ artHistory = <<>>

HeadNow == [x |-> prevX, y |-> prevY, vol |-> totalVol, out |-> gcode]

SetHeadNow(h) ==
    /\ prevX' = h.x
    /\ prevY' = h.y
    /\ totalVol' = h.vol
    /\ gcode' = h.out

\* slip: the running total is not set to 0 when a run starts
ArtStartKeepingTotal ==
    /\ pc = "start"
    /\ innerRadius' = IF cfg.addCircularBase THEN BaseInnerMargin(cfg) ELSE 0
    /\ prevX' = StartPoint(cfg).x
    /\ prevY' = StartPoint(cfg).y
    /\ gcode' = <<Move("G0", StartPoint(cfg).x, StartPoint(cfg).y, 0, 6000, 0, -1, FALSE)>>
    /\ totalVol' = totalVol
    /\ loopI' = IF cfg.pathType = "hilbert" THEN 1 ELSE 0
    /\ loopK' = 1
    /\ pc' = "path"
    /\ UNCHANGED <<cfg, artHistory, viewVars>>

\* lines 1153, 1160, 1208 and 1230-1349: the running total, the clip margin
\* and the instruction list start afresh, the head is placed on the start
\* point; with a base the clip margin becomes what the base generator
\* returned (line 1339)
ArtStart ==
    /\ pc = "start"
    /\ innerRadius' = IF cfg.addCircularBase THEN BaseInnerMargin(cfg) ELSE 0
    /\ prevX' = StartPoint(cfg).x
    /\ prevY' = StartPoint(cfg).y
    /\ gcode' = <<Move("G0", StartPoint(cfg).x, StartPoint(cfg).y, 0, 6000, 0, -1, FALSE)>>
    /\ totalVol' = 0
    /\ loopI' = IF cfg.pathType = "hilbert" THEN 1 ELSE 0
    /\ loopK' = 1
    /\ pc' = "path"
    /\ UNCHANGED <<cfg, artHistory, viewVars>>

\* lines 1480-1489: one iteration of the hilbert loop
ArtHilbertStep ==
    /\ pc = "path" /\ cfg.pathType = "hilbert"
    /\ loopI < Pow(4, cfg.fractalOrder)
    /\ SetHeadNow(DoSmartMove(cfg, innerRadius, imageZoom, imageOffsetX, imageOffsetY, HeadNow,
                           HilbertPoint(cfg, loopI).x, HilbertPoint(cfg, loopI).y, FALSE))
    /\ loopI' = loopI + 1
    /\ UNCHANGED <<cfg, artHistory, viewVars, innerRadius, loopK, pc>>

ZigzagLines(c) == c.printHeight \div c.spacing
ZigzagSegs(c) == Max(2, c.printWidth \div 50)

\* lines 1614-1634: one doSmartMove of the zigzag loops (the connector of
\* line i > 0 when loopK = 0, else sub-segment loopK of line loopI)
ArtZigzagStep ==
    /\ pc = "path" /\ cfg.pathType = "zigzag"
    /\ loopI < ZigzagLines(cfg)
    /\ LET y == loopI * cfg.spacing
           even == loopI % 2 = 0
           xStart == IF even THEN 0 ELSE cfg.printWidth
           xEnd == IF even THEN cfg.printWidth ELSE 0
           currX == xStart + RoundDiv((xEnd - xStart) * loopK, ZigzagSegs(cfg))
       IN  IF loopK = 0
           THEN /\ SetHeadNow(DoSmartMove(cfg, innerRadius, imageZoom, imageOffsetX,
                                       imageOffsetY, HeadNow,
                                       OffsetX(cfg) + xStart, OffsetY(cfg) + y, TRUE))
                /\ loopK' = 1
                /\ loopI' = loopI
           ELSE /\ SetHeadNow(DoSmartMove(cfg, innerRadius, imageZoom, imageOffsetX,
                                       imageOffsetY, HeadNow,
                                       OffsetX(cfg) + currX, OffsetY(cfg) + y, FALSE))
                /\ IF loopK = ZigzagSegs(cfg)
                   THEN loopI' = loopI + 1 /\ loopK' = 0
                   ELSE loopI' = loopI /\ loopK' = loopK + 1
    /\ UNCHANGED <<cfg, artHistory, viewVars, innerRadius, pc>>

\* line 8: the safety cap of the pattern loops
MAX_LOOP_ITERATIONS == 100000

\* slip: laps go on only while more than two spacings are left
SquareLoopGuardTwice(size, sp, it) == size > 2 * sp /\ it < MAX_LOOP_ITERATIONS

\* line 1496: the square spiral's while condition (2 * size > 3 * spacing)
SquareLoopGuard(size, sp, it) == 2 * size > 3 * sp /\ it < MAX_LOOP_ITERATIONS

\* lines 1504-1510: the doSmartMove calls of one moveLine of a given length
MoveLineCalls(length) == Max(2, length \div 50)

\* The square spiral (lines 1490-1534).  loopI = 5 * lap + side: sides 0..3
\* are the four moveLine calls of a lap, side 4 its connector; loopK is k of
\* the moveLine loop; loopI = -1 once the code after the loop has run.
SquareLap == loopI \div 5
SquareSide == loopI % 5
SquareSize(c, lap) == PrintDim(c) - 2 * c.spacing * lap
SquareCorner(c, lap) ==
    [x |-> CenterOffset(c).x + c.spacing * lap, y |-> CenterOffset(c).y + c.spacing * lap]

\* the arguments (startX, startY, endX, endY, length) of moveLine call `side`
\* of a lap (lines 1512-1517)
SquareLine(c, lap, side) ==
    LET size == SquareSize(c, lap)
        x0 == SquareCorner(c, lap).x
        y0 == SquareCorner(c, lap).y
        x1 == x0 + size
        y1 == y0 + size
        remainingLength == size - c.spacing
    IN  IF side = 0 THEN [sx |-> x0, sy |-> y0, ex |-> x1, ey |-> y0, length |-> size]
        ELSE IF side = 1 THEN [sx |-> x1, sy |-> y0, ex |-> x1, ey |-> y1, length |-> size]
        ELSE IF side = 2 THEN [sx |-> x1, sy |-> y1, ex |-> x0, ey |-> y1, length |-> size]
        ELSE [sx |-> x0, sy |-> y1, ex |-> x0, ey |-> y1 - remainingLength,
              length |-> remainingLength]

\* lines 1496-1525: one doSmartMove of the square spiral's loop
ArtSquareStep ==
    /\ pc = "path" /\ cfg.pathType = "squareSpiral"
    /\ loopI >= 0
    /\ SquareLoopGuard(SquareSize(cfg, SquareLap), cfg.spacing, SquareLap)
    /\ IF SquareSide < 4
       THEN LET ln == SquareLine(cfg, SquareLap, SquareSide)
                numSegs == MoveLineCalls(ln.length)
            IN  /\ SetHeadNow(DoSmartMove(cfg, innerRadius, imageZoom, imageOffsetX,
                                        imageOffsetY, HeadNow,
                                        ln.sx + RoundDiv((ln.ex - ln.sx) * loopK, numSegs),
                                        ln.sy + RoundDiv((ln.ey - ln.sy) * loopK, numSegs),
                                        FALSE))
                /\ IF loopK = numSegs
                   THEN loopI' = loopI + 1 /\ loopK' = 1
                   ELSE loopI' = loopI /\ loopK' = loopK + 1
       ELSE /\ SetHeadNow(DoSmartMove(cfg, innerRadius, imageZoom, imageOffsetX,
                                   imageOffsetY, HeadNow,
                                   SquareCorner(cfg, SquareLap + 1).x,
                                   SquareCorner(cfg, SquareLap + 1).y, TRUE))
            /\ loopI' = loopI + 1
            /\ loopK' = 1
    /\ UNCHANGED <<cfg, artHistory, viewVars, innerRadius, pc>>

\* lines 1496 and 1528-1534: the loop is left; the centre of what is left is
\* visited if its size is positive
ArtSquareAfter ==
    /\ pc = "path" /\ cfg.pathType = "squareSpiral"
    /\ loopI >= 0
    /\ ~SquareLoopGuard(SquareSize(cfg, SquareLap), cfg.spacing, SquareLap)
    /\ IF SquareSize(cfg, SquareLap) > 0
       THEN SetHeadNow(DoSmartMove(cfg, innerRadius, imageZoom, imageOffsetX, imageOffsetY,
                                   HeadNow,
                                   SquareCorner(cfg, SquareLap).x
                                       + SquareSize(cfg, SquareLap) \div 2,
                                   SquareCorner(cfg, SquareLap).y
                                       + SquareSize(cfg, SquareLap) \div 2,
                                   FALSE))
       ELSE UNCHANGED <<prevX, prevY, totalVol, gcode>>
    /\ loopI' = -1
    /\ loopK' = 0
    /\ UNCHANGED <<cfg, artHistory, viewVars, innerRadius, pc>>

\* what a run that ends leaves: its parameters and view, how it ended, the
\* instruction list and the running total
Ended(outcome) ==
    [cfg |-> cfg, zoom |-> imageZoom, offX |-> imageOffsetX, offY |-> imageOffsetY,
     outcome |-> outcome, gcode |-> gcode, totalVol |-> totalVol]

PathLoopDone ==
    \/ cfg.pathType = "hilbert" /\ loopI >= Pow(4, cfg.fractalOrder)
    \/ cfg.pathType = "squareSpiral" /\ loopI = -1
    \/ cfg.pathType = "zigzag" /\ loopI >= ZigzagLines(cfg)

\* lines 1637-1639: the pattern loop has ended, the trailer is written
ArtFinish ==
    /\ pc = "path" /\ PathLoopDone
    /\ pc' = "done"
    /\ UNCHANGED <<cfg, viewVars, innerRadius, prevX, prevY, totalVol, gcode, loopI, loopK>>
    /\ artHistory' = Append(artHistory, Ended("done"))

\* the most runs in a row, and the number of moves after which a run may
\* be cut short by an error
MaxArtRuns == 3
FaultAfter == 4

\* the parameter sets that are run again: the three patterns on one image
RepeatConfigs ==
    {c \in Configs :
        /\ ~c.originAtCenter /\ ~c.addCircularBase /\ ~c.textMode /\ ~c.mirrorimage
        /\ c.gammaVal = 10 /\ c.squiggleAmp = 0
        /\ c.pixels = Grey4(153, 255, 153, 255)}

\* lines 1053-1055: an error thrown inside processImageCore ends the run
\* where it is
ArtFail ==
    /\ pc = "path"
    /\ cfg \in RepeatConfigs
    /\ Len(gcode) = FaultAfter
    /\ pc' = "failed"
    /\ artHistory' = Append(artHistory, Ended("failed"))
    /\ UNCHANGED <<cfg, viewVars, innerRadius, prevX, prevY, totalVol, gcode, loopI, loopK>>

\* processImage is triggered again, with the same or other parameters:
\* processImageCore is entered anew (lines 1069-1160)
ArtAgain ==
    /\ pc \in {"done", "failed"}
    /\ cfg \in RepeatConfigs
    /\ Len(artHistory) < MaxArtRuns
    /\ cfg' \in RepeatConfigs
    /\ pc' = "start"
    /\ UNCHANGED <<artHistory, viewVars, innerRadius, prevX, prevY, totalVol, gcode, loopI,
                   loopK>>

----------------------------------------------------------------------------
(* Spiral pattern loop: src/script.js 1587-1612.  The radius is kept in   *)
(* 0.001 mm and the angle in 0.00001 rad, so that the small angle steps   *)
(* far from the centre are not rounded away.  doSmartMove does not touch  *)
(* radius, angle or iterations; its calls are counted.                    *)

\* TWO_PI in 1/10000
TWO_PI == 62832

\* floor(a * b / c) without forming a * b
MulDiv(a, b, c) == a * (b \div c) + (a * (b % c)) \div c

\* line 1592, for the parsed print size and base settings
SpiralMaxRadius(c) ==
    10 * (IF c.addCircularBase THEN BaseRadius(c) - BaseInnerMargin(c)
                               ELSE PrintDim(c) \div 2)

\* spacing 0.1, 1 and 10 mm; print 1 mm, 16 mm and 100 mm square; no base,
\* or a base with a 2 mm margin
SpiralConfigs ==
    {c \in [pathType : {"spiral"}, spacing : {10, 100, 1000},
            printWidth : {100, 1600, 10000}, printHeight : {100, 1600, 10000},
            addCircularBase : BOOLEAN, baseMargin : {0, 200}] :
        /\ c.printWidth = c.printHeight
        /\ c.addCircularBase <=> c.baseMargin # 0}

NoOutput == [moves |-> -1, trailer |-> FALSE]

SpiralIdle ==
    /\ spacing = 0 /\ maxRadius = 0
    /\ radius = 0 /\ angle = 0 /\ iterations = 0
    /\ spiralPoints = 0
    /\ spiralWarned = FALSE
    /\ spiralPc = "idle"
    /\ spiralKind = "none"
    /\ currentSize = 0
    /\ spiralOut = NoOutput
    /\ currentOffset = 0 /\ squareLast = [x |-> 0, y |-> 0]

\* lines 1588-1594 and 1491-1495: the state on entry to the while loop
SpiralInit ==
    /\ \E c \in SpiralConfigs :
          /\ spacing = c.spacing
          /\ \/ /\ spiralKind = "spiral"
                /\ maxRadius = SpiralMaxRadius(c)
                /\ currentSize = 0
                /\ squareLast = [x |-> 0, y |-> 0]
             \/ /\ spiralKind = "squareSpiral"
                /\ maxRadius = 0
                /\ currentSize = PrintDim(c)
                \* lines 1220-1221, 1230-1231: the head starts at the centre
                /\ squareLast = [x |-> PrintDim(c) \div 2, y |-> PrintDim(c) \div 2]
    /\ currentOffset = 0
    /\ radius = 0 /\ angle = 0 /\ iterations = 0
    /\ spiralPoints = 0
    /\ spiralWarned = FALSE
    /\ spiralPc = "loop"
    /\ spiralOut = NoOutput

\* slip: the safety cap left out of the loop condition
SpiralLoopGuardNoCap(r, maxR, it) == r < maxR

\* line 1595: the while condition
SpiralLoopGuard(r, maxR, it) == r < maxR /\ it < MAX_LOOP_ITERATIONS

\* line 1599: dTheta = res / Math.max(0.5, radius), res = 0.5
DTheta(r) == RoundDiv(50000000, Max(500, r))

\* lines 1596-1607: one pass through the loop body
SpiralIterate ==
    /\ spiralPc = "loop" /\ spiralKind = "spiral"
    /\ SpiralLoopGuard(radius, maxRadius, iterations)
    /\ iterations' = iterations + 1
    /\ angle' = angle + DTheta(radius)
    /\ radius' = MulDiv(spacing, angle', TWO_PI)
    /\ IF radius' > maxRadius
       THEN spiralPc' = "after" /\ UNCHANGED spiralPoints
       ELSE spiralPc' = "loop" /\ spiralPoints' = spiralPoints + 1
    /\ UNCHANGED <<spacing, maxRadius, spiralWarned, spiralKind, currentSize, spiralOut,
                   currentOffset, squareLast>>

\* slip: the loop is left only once the radius has reached the maximum
SpiralExitAtRadiusOnly ==
    /\ spiralPc = "loop" /\ spiralKind = "spiral"
    /\ ~(radius < maxRadius)
    /\ spiralPc' = "after"
    /\ UNCHANGED <<spacing, maxRadius, radius, angle, iterations, spiralPoints, spiralWarned,
                   spiralKind, currentSize, spiralOut, currentOffset, squareLast>>

\* line 1595: the while condition fails
SpiralExit ==
    /\ spiralPc = "loop" /\ spiralKind = "spiral"
    /\ ~SpiralLoopGuard(radius, maxRadius, iterations)
    /\ spiralPc' = "after"
    /\ UNCHANGED <<spacing, maxRadius, radius, angle, iterations, spiralPoints, spiralWarned,
                   spiralKind, currentSize, spiralOut, currentOffset, squareLast>>

\* lines 1497-1525: one pass through the square spiral's loop body
SquareIterate ==
    /\ spiralPc = "loop" /\ spiralKind = "squareSpiral"
    /\ SquareLoopGuard(currentSize, spacing, iterations)
    /\ iterations' = iterations + 1
    /\ spiralPoints' = spiralPoints + 3 * MoveLineCalls(currentSize)
                       + MoveLineCalls(currentSize - spacing) + 1
    /\ currentSize' = currentSize - 2 * spacing
    /\ currentOffset' = currentOffset + spacing
    \* line 1521: the lap ends with the connector to (nextX, nextY)
    /\ squareLast' = [x |-> currentOffset + spacing, y |-> currentOffset + spacing]
    /\ UNCHANGED <<spacing, maxRadius, radius, angle, spiralWarned, spiralPc, spiralKind,
                   spiralOut>>

\* line 1496: the while condition fails
SquareExit ==
    /\ spiralPc = "loop" /\ spiralKind = "squareSpiral"
    /\ ~SquareLoopGuard(currentSize, spacing, iterations)
    /\ spiralPc' = "after"
    /\ UNCHANGED <<spacing, maxRadius, radius, angle, iterations, spiralPoints, spiralWarned,
                   spiralKind, currentSize, spiralOut, currentOffset, squareLast>>

\* slip: reaching the cap ends the run without output
SpiralAfterAborting ==
    /\ spiralPc = "after"
    /\ spiralWarned' = (iterations >= MAX_LOOP_ITERATIONS)
    /\ spiralPoints' = IF spiralKind = "squareSpiral" /\ currentSize > 0
                       THEN spiralPoints + 1 ELSE spiralPoints
    /\ squareLast' = IF spiralKind = "squareSpiral" /\ currentSize > 0
                     THEN [x |-> currentOffset + currentSize \div 2,
                           y |-> currentOffset + currentSize \div 2]
                     ELSE squareLast
    /\ spiralPc' = IF iterations >= MAX_LOOP_ITERATIONS THEN "aborted" ELSE "trailer"
    /\ UNCHANGED <<spacing, maxRadius, radius, angle, iterations, spiralKind, currentSize,
                   spiralOut, currentOffset>>

\* lines 1610-1612, and 1528-1534 for the square spiral (which ends with a
\* move to the centre of what is left)
SpiralAfter ==
    /\ spiralPc = "after"
    /\ spiralWarned' = (iterations >= MAX_LOOP_ITERATIONS)
    /\ spiralPoints' = IF spiralKind = "squareSpiral" /\ currentSize > 0
                       THEN spiralPoints + 1 ELSE spiralPoints
    /\ squareLast' = IF spiralKind = "squareSpiral" /\ currentSize > 0
                     THEN [x |-> currentOffset + currentSize \div 2,
                           y |-> currentOffset + currentSize \div 2]
                     ELSE squareLast
    /\ spiralPc' = "trailer"
    /\ UNCHANGED <<spacing, maxRadius, radius, angle, iterations, spiralKind, currentSize,
                   spiralOut, currentOffset>>

\* lines 1637-1649: the trailer is pushed, the block merged and published
SpiralPublish ==
    /\ spiralPc = "trailer"
    /\ spiralOut' = [moves |-> spiralPoints, trailer |-> TRUE]
    /\ spiralPc' = "done"
    /\ UNCHANGED <<spacing, maxRadius, radius, angle, iterations, spiralPoints, spiralWarned,
                   spiralKind, currentSize, currentOffset, squareLast>>

----------------------------------------------------------------------------
(* Run control: processImage (src/script.js 1023-1064), the validation and *)
(* publication of processImageCore (1084-1107, 1126-1141, 1637-1658), the  *)
(* image loader (512-596) and the triggers (2037, 2080-2087).  A run's     *)
(* output is identified by the run's number.                               *)

MaxRuns == 3

MSG_NO_IMAGE == "Please upload an image first!"
MSG_WIDTH == "Min line width must be less than max line width"
MSG_SPEED == "Min speed must be less than max speed"
MSG_RUN_ERROR == "An error occurred during processing: "

\* minLineWidth / maxLineWidth in 0.01 mm, minSpeed / maxSpeed in mm/s
Forms == [minW : {20, 80}, maxW : {80}, minSpeedMMS : {10, 100}, maxSpeedMMS : {100}]

NoRun == [outcome |-> "none"]
NoDownload == [content |-> 0]

RunAt(image) ==
    /\ originalImage = image
    /\ form = [minW |-> 20, maxW |-> 80, minSpeedMMS |-> 10, maxSpeedMMS |-> 100]
    /\ btnDisabled = FALSE
    /\ btnLabel = "generate"
    /\ downloadShown = FALSE
    /\ spinnerShown = FALSE
    /\ scheduled = 0
    /\ accepted = NoRun
    /\ runsStarted = 0
    /\ gcodeContent = 0
    /\ outputArea = 0
    /\ errorToast = ""
    /\ runLog = NoRun
    /\ downloaded = NoDownload

RunIdle == RunAt("null")

\* appState.imageZoom, imageOffsetX, imageOffsetY as they start (lines 181-183)
ViewIdle ==
    /\ imageZoom = 10 /\ imageOffsetX = 0 /\ imageOffsetY = 0
    /\ isDragging = FALSE
    /\ viewEvents = 0

\* the page as loaded: appState (lines 174-200) and the form's defaults
RunInit == RunIdle /\ ViewIdle

uiVars == <<btnDisabled, btnLabel, downloadShown, spinnerShown>>
outVars == <<gcodeContent, outputArea>>

\* the state a trigger or run found, kept to compare with what it left
Snapshot ==
    [content |-> gcodeContent, output |-> outputArea,
     download |-> downloadShown, label |-> btnLabel]

\* lines 532-536: the file is read; cleanup() and a fresh Image
ImageFileRead ==
    /\ originalImage' = "pending"
    /\ UNCHANGED downloaded
    /\ UNCHANGED <<form, uiVars, scheduled, accepted, runsStarted, outVars, errorToast, runLog>>
    /\ UNCHANGED viewVars

\* lines 538-575: the image decoded; the view is reset (lines 551-554)
ImageOnload ==
    /\ originalImage = "pending"
    /\ originalImage' = "loaded"
    /\ UNCHANGED downloaded
    /\ imageZoom' = 10 /\ imageOffsetX' = 0 /\ imageOffsetY' = 0
    /\ UNCHANGED <<isDragging, viewEvents>>
    /\ UNCHANGED <<form, uiVars, scheduled, accepted, runsStarted, outVars, errorToast, runLog>>

\* lines 577-581: the image could not be decoded
ImageOnerror ==
    /\ originalImage = "pending"
    /\ originalImage' = "broken"
    /\ UNCHANGED downloaded
    /\ errorToast' = "Failed to load image. The file may be corrupted."
    /\ UNCHANGED <<form, uiVars, scheduled, accepted, runsStarted, outVars, runLog>>
    /\ UNCHANGED viewVars

\* the user changes the width or speed inputs
EditForm ==
    /\ form' \in Forms
    /\ form' # form
    /\ UNCHANGED downloaded
    /\ UNCHANGED <<originalImage, uiVars, scheduled, accepted, runsStarted, outVars,
                   errorToast, runLog, viewVars>>

\* what a trigger or a run did: its outcome, whether instructions were
\* generated, whether line 1644 was reached, the message shown, and the
\* inputs and state it found
Log(outcome, generated, published, reported, before) ==
    [outcome |-> outcome, generated |-> generated, published |-> published,
     reported |-> reported, before |-> before, form |-> form, image |-> originalImage]

\* slip: the trigger control is not disabled when a run is accepted
ProcessImageLeavingButton ==
    IF originalImage = "null"
    THEN /\ errorToast' = MSG_NO_IMAGE
         /\ runLog' = Log("no_image", FALSE, FALSE, MSG_NO_IMAGE, Snapshot)
         /\ UNCHANGED <<originalImage, form, uiVars, scheduled, accepted, runsStarted, outVars>>
         /\ UNCHANGED viewVars
    ELSE /\ runsStarted < MaxRuns
         /\ btnLabel' = "processing"
         /\ downloadShown' = FALSE
         /\ spinnerShown' = TRUE
         /\ scheduled' = scheduled + 1
         /\ accepted' = Snapshot
         /\ runsStarted' = runsStarted + 1
         /\ UNCHANGED <<originalImage, form, btnDisabled, outVars, errorToast, runLog, viewVars>>

\* processImage, lines 1023-1064 up to the setTimeout call
ProcessImage ==
    IF originalImage = "null"
    THEN /\ errorToast' = MSG_NO_IMAGE
         /\ runLog' = Log("no_image", FALSE, FALSE, MSG_NO_IMAGE, Snapshot)
         /\ UNCHANGED <<originalImage, form, uiVars, scheduled, accepted, runsStarted, outVars>>
         /\ UNCHANGED viewVars
    ELSE /\ runsStarted < MaxRuns
         /\ btnDisabled' = TRUE
         /\ btnLabel' = "processing"
         /\ downloadShown' = FALSE
         /\ spinnerShown' = TRUE
         /\ scheduled' = scheduled + 1
         /\ accepted' = Snapshot
         /\ runsStarted' = runsStarted + 1
         /\ UNCHANGED <<originalImage, form, outVars, errorToast, runLog, viewVars>>

\* line 2037: a click on the button; a disabled button dispatches no click
ClickGenerate ==
    /\ ~btnDisabled
    /\ ProcessImage
    /\ UNCHANGED downloaded

\* lines 2080-2087: Ctrl+Enter clicks the button unless it is disabled
CtrlEnter ==
    IF ~btnDisabled THEN ProcessImage /\ UNCHANGED downloaded
    ELSE UNCHANGED <<runVars, viewVars>>

\* lines 1056-1062: the finally block of the timer callback
Finally ==
    /\ spinnerShown' = FALSE
    /\ btnDisabled' = FALSE
    /\ btnLabel' = "generate"

\* lines 1053-1055 followed by the finally block
Caught(outcome, generated, published) ==
    /\ errorToast' = MSG_RUN_ERROR
    /\ runLog' = Log(outcome, generated, published, MSG_RUN_ERROR, accepted)
    /\ Finally

\* an early return of processImageCore after showErrorMessage
Rejected(outcome, msg) ==
    /\ errorToast' = msg
    /\ runLog' = Log(outcome, FALSE, FALSE, msg, accepted)
    /\ Finally
    /\ UNCHANGED <<downloadShown, outVars>>

\* lines 1644-1649
Publish ==
    /\ gcodeContent' = runsStarted
    /\ outputArea' = runsStarted

\* slip: equal widths pass the check
WidthsInvalidStrict(f) == f.minW > f.maxW

\* line 1093
WidthsInvalid(f) == f.minW >= f.maxW

\* line 1104
SpeedsInvalid(f) == f.minSpeedMMS >= f.maxSpeedMMS

\* The timer callback (lines 1049-1063): processImageCore, then catch and
\* finally.  An image that did not load makes the pixel read throw (lines
\* 1139-1141).  fault is where an unexpected error is raised: "generate"
\* before line 1644, "preview" in update3DPreviewFromGcode (line 1652).
RunTimerFires ==
    /\ scheduled > 0
    /\ scheduled' = scheduled - 1
    /\ accepted' = NoRun
    /\ UNCHANGED <<originalImage, form, runsStarted, viewVars, downloaded>>
    /\ IF WidthsInvalid(form) THEN Rejected("invalid_width", MSG_WIDTH)
       ELSE IF SpeedsInvalid(form) THEN Rejected("invalid_speed", MSG_SPEED)
       ELSE IF originalImage # "loaded"
       THEN Caught("image_unreadable", FALSE, FALSE) /\ UNCHANGED <<downloadShown, outVars>>
       ELSE \E fault \in {"none", "generate", "preview"} :
               CASE fault = "generate" ->
                        Caught("error", TRUE, FALSE) /\ UNCHANGED <<downloadShown, outVars>>
                 [] fault = "preview" ->
                        Publish /\ Caught("error", TRUE, TRUE) /\ UNCHANGED downloadShown
                 [] OTHER ->
                        /\ Publish
                        /\ downloadShown' = TRUE
                        /\ runLog' = Log("done", TRUE, TRUE, "", accepted)
                        /\ Finally
                        /\ UNCHANGED errorToast

MSG_NO_GCODE == "Please generate G-code first"

\* downloadGcode (lines 1960-1979): the stored output is handed out as a
\* file, unless it is empty or shorter than 10 characters (a published
\* output never is: it holds the header lines).  What is recorded is the
\* output, the latest accepted run and how the latest run ended.
DownloadGcode ==
    IF gcodeContent = 0
    THEN /\ errorToast' = MSG_NO_GCODE
         /\ UNCHANGED downloaded
    ELSE /\ downloaded' = [content |-> gcodeContent, latest |-> runsStarted,
                           outcome |-> runLog.outcome, pending |-> scheduled]
         /\ UNCHANGED errorToast

\* line 2042: a click on the download button; a button that is not
\* displayed cannot be clicked
ClickDownload ==
    /\ downloadShown
    /\ DownloadGcode
    /\ UNCHANGED <<originalImage, form, uiVars, scheduled, accepted, runsStarted, outVars,
                   runLog, viewVars>>

\* slip: the shortcut does not look at whether the button is displayed
CtrlSUnchecked ==
    /\ DownloadGcode
    /\ UNCHANGED <<originalImage, form, uiVars, scheduled, accepted, runsStarted, outVars,
                   runLog, viewVars>>

\* lines 2089-2095: Ctrl+S clicks the download button if it is displayed
CtrlS ==
    IF downloadShown
    THEN /\ DownloadGcode
         /\ UNCHANGED <<originalImage, form, uiVars, scheduled, accepted, runsStarted,
                        outVars, runLog, viewVars>>
    ELSE UNCHANGED <<runVars, viewVars>>

----------------------------------------------------------------------------
(* View transform: setupImageManipulationHandlers (src/script.js 410-506). *)
(* imageZoom in tenths, offsets and print-area fractions in 1/1000, mouse  *)
(* travel in screen pixels.                                                *)

PREVIEW_SCALE == 3
ZOOM_MIN == 10
ZOOM_MAX == 100
ZOOM_FACTOR == 11

MaxViewEvents == 4

\* zoom levels the wheel reaches from 1.0 by zooming in at the print area's
\* corner (where the offsets stay 0): the 23rd step and the clamped maximum
ReachedZooms == {89, ZOOM_MAX}

\* the page as loaded, or an image loaded and zoomed in at the corner
ViewInit ==
    \/ RunIdle /\ ViewIdle
    \/ /\ RunAt("loaded")
       /\ imageZoom \in ReachedZooms /\ imageOffsetX = 0 /\ imageOffsetY = 0
       /\ isDragging = FALSE
       /\ viewEvents = 0

\* lines 459 and 496: 1 - 1 / appState.imageZoom, rounded towards zero
MaxOffset(zoom) == (1000 * zoom - 10000) \div zoom

\* slip: the offset is kept non-negative but not below the maximum
ClampOffsetLowOnly(off, zoom) == Max(0, off)

\* lines 460-461 and 497-498
ClampOffset(off, zoom) == Max(0, Min(MaxOffset(zoom), off))

\* mouse travel between two mousemove events, sides of a square print in
\* mm, and the wheel position as a fraction of the print area
MouseDeltas == {-300, 6}
PrintSizesMM == {1, 100}
WheelCoords == {0, 1000}

\* lines 425-431
MouseDown ==
    /\ originalImage # "null"
    /\ isDragging' = TRUE
    /\ UNCHANGED <<imageZoom, imageOffsetX, imageOffsetY, viewEvents, runVars>>

\* lines 433-438
MouseUp ==
    /\ isDragging' = FALSE
    /\ UNCHANGED <<imageZoom, imageOffsetX, imageOffsetY, viewEvents, runVars>>

\* lines 439-463
MouseMove ==
    /\ isDragging /\ originalImage # "null"
    /\ viewEvents < MaxViewEvents
    /\ viewEvents' = viewEvents + 1
    /\ \E dx \in MouseDeltas, dy \in MouseDeltas, printSize \in PrintSizesMM :
          LET uvDeltaX == RoundDiv(dx * 1000, printSize * PREVIEW_SCALE)
              uvDeltaY == RoundDiv(dy * 1000, printSize * PREVIEW_SCALE)
          IN  /\ imageOffsetX' =
                    ClampOffset(imageOffsetX - RoundDiv(uvDeltaX * 10, imageZoom), imageZoom)
              /\ imageOffsetY' =
                    ClampOffset(imageOffsetY + RoundDiv(uvDeltaY * 10, imageZoom), imageZoom)
    /\ UNCHANGED <<imageZoom, isDragging, runVars>>

\* lines 465-506; zoomIn is e.deltaY < 0
Wheel ==
    /\ originalImage # "null"
    /\ viewEvents < MaxViewEvents
    /\ viewEvents' = viewEvents + 1
    /\ \E u_clamped \in WheelCoords, v_print_ydown \in WheelCoords, zoomIn \in BOOLEAN :
          LET u_source_old == RoundDiv(u_clamped * 10, imageZoom) + imageOffsetX
              v_source_old == RoundDiv(v_print_ydown * 10, imageZoom) + imageOffsetY
              newZoom == IF zoomIn THEN RoundDiv(imageZoom * ZOOM_FACTOR, 10)
                                   ELSE RoundDiv(imageZoom * 10, ZOOM_FACTOR)
              zoom == Max(ZOOM_MIN, Min(ZOOM_MAX, newZoom))
          IN  /\ imageZoom' = zoom
              /\ imageOffsetX' = ClampOffset(u_source_old - RoundDiv(u_clamped * 10, zoom), zoom)
              /\ imageOffsetY' = ClampOffset(v_source_old - RoundDiv(v_print_ydown * 10, zoom), zoom)
    /\ UNCHANGED <<isDragging, runVars>>

----------------------------------------------------------------------------
(* Parameter parsing: safeParseFloat / safeParseInt (src/script.js 37-54)  *)
(* and the parameters of a run (1074-1124, 1235). Values are in 0.01 units. *)

\* the text of a form field, as read by .value
RawStrings == {"", "Infinity", "-1", "0.5", "75", "5000"}

NaN == [kind |-> "nan", val |-> 0]
Num(v) == [kind |-> "num", val |-> v]

\* parseFloat on the texts above
ParseFloat(raw) ==
    CASE raw = ""         -> NaN
      [] raw = "Infinity" -> [kind |-> "inf", val |-> 0]
      [] raw = "-1"       -> Num(-100)
      [] raw = "0.5"      -> Num(50)
      [] raw = "75"       -> Num(7500)
      [] raw = "5000"     -> Num(500000)

\* parseInt(text, 10) on the texts above: digits up to the first non-digit
ParseInt(raw) ==
    CASE raw = ""         -> NaN
      [] raw = "Infinity" -> NaN
      [] raw = "-1"       -> Num(-100)
      [] raw = "0.5"      -> Num(0)
      [] raw = "75"       -> Num(7500)
      [] raw = "5000"     -> Num(500000)

\* isNaN(parsed) || !isFinite(parsed)
NotUsable(p) == p.kind # "num"

\* lines 37-43 and 48-54, after the parse
SafeParse(p, defaultValue, min, max) ==
    IF NotUsable(p) THEN defaultValue ELSE Max(min, Min(max, p.val))

\* the safeParse calls of processImageCore in order; max = 0 stands for
\* a maximum taken from a parameter parsed earlier
ParamTable ==
    << [name |-> "filamentDia",   int |-> FALSE, def |-> 175,   min |-> 10,  max |-> 500],
       [name |-> "layerHeight",   int |-> FALSE, def |-> 20,    min |-> 5,   max |-> 100],
       [name |-> "zOffset",       int |-> FALSE, def |-> 20,    min |-> 0,   max |-> 5000],
       [name |-> "bedWidth",      int |-> FALSE, def |-> 25000, min |-> 5000, max |-> 100000],
       [name |-> "bedHeight",     int |-> FALSE, def |-> 25000, min |-> 5000, max |-> 100000],
       [name |-> "printWidth",    int |-> FALSE, def |-> 10000, min |-> 100, max |-> 0],
       [name |-> "printHeight",   int |-> FALSE, def |-> 10000, min |-> 100, max |-> 0],
       [name |-> "spacing",       int |-> FALSE, def |-> 60,    min |-> 10,  max |-> 1000],
       [name |-> "minW",          int |-> FALSE, def |-> 20,    min |-> 5,   max |-> 200],
       [name |-> "maxW",          int |-> FALSE, def |-> 80,    min |-> 5,   max |-> 300],
       [name |-> "minSpeedMMS",   int |-> FALSE, def |-> 1000,  min |-> 100, max |-> 20000],
       [name |-> "maxSpeedMMS",   int |-> FALSE, def |-> 10000, min |-> 100, max |-> 30000],
       [name |-> "gammaVal",      int |-> FALSE, def |-> 150,   min |-> 50,  max |-> 300],
       [name |-> "squiggleAmp",   int |-> FALSE, def |-> 0,     min |-> 0,   max |-> 500],
       [name |-> "squiggleFreq",  int |-> FALSE, def |-> 100,   min |-> 10,  max |-> 2000],
       [name |-> "fractalOrder",  int |-> TRUE,  def |-> 600,   min |-> 300, max |-> 800],
       [name |-> "baseMargin",    int |-> FALSE, def |-> 200,   min |-> 0,   max |-> 10000],
       [name |-> "baseLayers",    int |-> TRUE,  def |-> 200,   min |-> 100, max |-> 2000],
       [name |-> "textThreshold", int |-> FALSE, def |-> 40,    min |-> 5,   max |-> 95],
       [name |-> "baseSpeedMMS",  int |-> FALSE, def |-> 3000,  min |-> 1000, max |-> 15000] >>

KeptNames == {"bedWidth", "bedHeight", "printWidth", "printHeight", "minW", "minSpeedMMS"}

NothingParsed == [n \in KeptNames |-> 0]
NoParse == [name |-> "none", raw |-> "", value |-> 0, min |-> 0, max |-> 0]

\* lines 1081-1082: the print size is clamped to the bed size parsed before
ParamMax(row, kept) ==
    CASE row.name = "printWidth"  -> kept.bedWidth
      [] row.name = "printHeight" -> kept.bedHeight
      [] OTHER -> row.max

\* lines 1085, 1093, 1104: the validation returns
ValidationFails(name, value, kept) ==
    \/ name = "spacing" /\ value <= 0
    \/ name = "maxW" /\ kept.minW >= value
    \/ name = "maxSpeedMMS" /\ kept.minSpeedMMS >= value

ParseIdle ==
    /\ parseIdx = 0
    /\ parseStop = "idle"
    /\ parsed = NothingParsed
    /\ parsedLast = NoParse

\* line 1069: processImageCore is entered
ParseInit ==
    /\ parseIdx = 1
    /\ parseStop = "running"
    /\ parsed = NothingParsed
    /\ parsedLast = NoParse

\* one safeParseFloat / safeParseInt call and the validation that follows it
ParseParameter ==
    /\ parseStop = "running"
    /\ parseIdx <= Len(ParamTable)
    /\ \E raw \in RawStrings :
          LET row == ParamTable[parseIdx]
              p == IF row.int THEN ParseInt(raw) ELSE ParseFloat(raw)
              hi == ParamMax(row, parsed)
              v == SafeParse(p, row.def, row.min, hi)
          IN  /\ parsedLast' = [name |-> row.name, raw |-> raw, value |-> v,
                                min |-> row.min, max |-> hi]
              /\ parsed' = IF row.name \in KeptNames
                           THEN [parsed EXCEPT ![row.name] = v] ELSE parsed
              /\ parseStop' = IF ValidationFails(row.name, v, parsed)
                              THEN "rejected" ELSE "running"
    /\ parseIdx' = parseIdx + 1

\* every parameter parsed: the run goes on with the parsed values
ParseDone ==
    /\ parseStop = "running"
    /\ parseIdx > Len(ParamTable)
    /\ parseStop' = "done"
    /\ UNCHANGED <<parseIdx, parsed, parsedLast>>

----------------------------------------------------------------------------
(* Base generators: generateCircularBase (src/script.js 679-772),          *)
(* generateSquareBase (777-889), generateRectangularBase (894-1016).       *)
(* Lengths in 0.01 mm, E in 0.00001 mm, speeds in mm/min.                  *)

BASE_OVERLAP == 45
BASE_LINE_WIDTH == 50

\* one pushed line: "G1Z" (n > 0: with the "Base layer n/N" comment), "G0XY",
\* "G1XYE", "G1E", "G0Z" or "comment"
Instr(op, x, y, e, f, z, n) ==
    [op |-> op, x |-> x, y |-> y, e |-> e, f |-> f, z |-> z, n |-> n]

\* lines 1289-1296: the generator chosen for a path type
BaseShape(c) ==
    IF c.pathType = "spiral" THEN "circular"
    ELSE IF c.pathType \in {"squareSpiral", "hilbert"} THEN "square"
    ELSE "rectangular"

CeilDiv(a, b) == -((-a) \div b)

\* Math.sin(pi * p / q) in 1/1000 for 0 <= p <= q (Bhaskara's rational
\* approximation, within 0.002 of the sine)
SinHalfTurn(p, q) == RoundDiv(16000 * p * (q - p), 5 * q * q - 4 * p * (q - p))

\* Math.sin and Math.cos of a / n of a turn, in 1/1000
SinTurns(a, n) ==
    LET r == a % n
    IN  IF 2 * r <= n THEN SinHalfTurn(2 * r, n) ELSE -SinHalfTurn(2 * r - n, n)
CosTurns(a, n) == SinTurns(4 * a + n, 4 * n)

\* slip: the segment's extrusion is not added to params.totalE
WriteBaseSegmentNotCounted(c, h, x, y, customSpeed) ==
    LET dist == Hypot(x - h.x, y - h.y)
    IN  IF dist < 1 THEN h
        ELSE [x |-> x, y |-> y, vol |-> h.vol,
              out |-> Append(h.out,
                        Instr("G1XYE", x, y,
                              EFixed5(dist * BASE_LINE_WIDTH * c.layerHeight, FilArea(c)),
                              customSpeed, 0, 0))]

\* writeBaseSegment (lines 691-700, 788-797, 917-926); h is the generator's
\* prevX, prevY, params.totalE (as a volume) and gcode
WriteBaseSegment(c, h, x, y, customSpeed) ==
    LET dist == Hypot(x - h.x, y - h.y)
    IN  IF dist < 1 THEN h
        ELSE LET vol == dist * BASE_LINE_WIDTH * c.layerHeight
             IN  [x |-> x, y |-> y, vol |-> h.vol + vol,
                  out |-> Append(h.out,
                            Instr("G1XYE", x, y, EFixed5(vol, FilArea(c)),
                                  customSpeed, 0, 0))]

\* a G0 to (x, y) followed by prevX = x, prevY = y
TravelTo(h, x, y) ==
    [h EXCEPT !.x = x, !.y = y, !.out = Append(@, Instr("G0XY", x, y, 0, 6000, 0, 0))]

\* lines 710-711: the radius and the number of points of circular wall w
WallRadius(c, w) == BaseRadius(c) - w * WALL_SPACING
NumPoints(c, w) == Max(60, CeilDiv(TWO_PI * WallRadius(c, w), 500000))

\* the outline the square and the rectangular base are built on
\* (lines 808-811, 937-940)
BaseRect(c) ==
    IF BaseShape(c) = "square"
    THEN [x |-> CenterOffset(c).x, y |-> CenterOffset(c).y, w |-> PrintDim(c), h |-> PrintDim(c)]
    ELSE [x |-> OffsetX(c), y |-> OffsetY(c), w |-> c.printWidth, h |-> c.printHeight]

\* lines 807-811, 819, 826: the corners of wall w and its segment counts
WallBox(c, w) ==
    LET inset == w * WALL_SPACING
        x0 == BaseRect(c).x + inset
        y0 == BaseRect(c).y + inset
        x1 == BaseRect(c).x + BaseRect(c).w - inset
        y1 == BaseRect(c).y + BaseRect(c).h - inset
    IN  [x0 |-> x0, y0 |-> y0, x1 |-> x1, y1 |-> y1,
         bottomSegs |-> Max(2, (x1 - x0) \div 50),
         rightSegs |-> Max(2, (y1 - y0) \div 50)]

\* the number of writeBaseSegment calls of wall w
WallPoints(c, w) ==
    IF BaseShape(c) = "circular" THEN NumPoints(c, w)
    ELSE 2 * WallBox(c, w).bottomSegs + 2 * WallBox(c, w).rightSegs - 1

\* where wall w starts (lines 713-714, 814)
WallStart(c, w) ==
    IF BaseShape(c) = "circular"
    THEN [x |-> CenterX(c) + WallRadius(c, w), y |-> CenterY(c)]
    ELSE [x |-> WallBox(c, w).x0, y |-> WallBox(c, w).y0]

\* the k-th point of wall w: lines 720-724 for the circle; for the others
\* the bottom, right, top and left edge loops (lines 819-843)
WallPoint(c, w, k) ==
    IF BaseShape(c) = "circular"
    THEN [x |-> CenterX(c) + RoundDiv(WallRadius(c, w) * CosTurns(k, NumPoints(c, w)), 1000),
          y |-> CenterY(c) + RoundDiv(WallRadius(c, w) * SinTurns(k, NumPoints(c, w)), 1000)]
    ELSE
      LET b == WallBox(c, w)
          bs == b.bottomSegs
          rs == b.rightSegs
      IN  IF k <= bs
          THEN [x |-> b.x0 + RoundDiv((b.x1 - b.x0) * k, bs), y |-> b.y0]
          ELSE IF k <= bs + rs
          THEN [x |-> b.x1, y |-> b.y0 + RoundDiv((b.y1 - b.y0) * (k - bs), rs)]
          ELSE IF k <= 2 * bs + rs
          THEN [x |-> b.x1 - RoundDiv((b.x1 - b.x0) * (k - bs - rs), bs), y |-> b.y1]
          ELSE [x |-> b.x0, y |-> b.y1 - RoundDiv((b.y1 - b.y0) * (k - 2 * bs - rs), rs)]

\* line 733 (circular), 850-854 and 978-982 (square, rectangular)
FillLimitRadius(c) == BaseRadius(c) - NUM_WALLS * WALL_SPACING
FillX0(c) == BaseRect(c).x + NUM_WALLS * WALL_SPACING
FillY0(c) == BaseRect(c).y + NUM_WALLS * WALL_SPACING
FillX1(c) == BaseRect(c).x + BaseRect(c).w - NUM_WALLS * WALL_SPACING
FillY1(c) == BaseRect(c).y + BaseRect(c).h - NUM_WALLS * WALL_SPACING

\* the two writeBaseSegment calls of one infill line
FillLine(c, h, xLeft, xRight, y, goingRight, speed) ==
    IF goingRight
    THEN WriteBaseSegment(c, WriteBaseSegment(c, h, xLeft, y, speed), xRight, y, speed)
    ELSE WriteBaseSegment(c, WriteBaseSegment(c, h, xRight, y, speed), xLeft, y, speed)

\* the infill loop's first yRel, its limit, and the line drawn at yRel
\* (lines 745-749, 866)
FillFirst(c) == IF BaseShape(c) = "circular" THEN -FillLimitRadius(c) ELSE FillY0(c)
FillLast(c) == IF BaseShape(c) = "circular" THEN FillLimitRadius(c) ELSE FillY1(c)
FillSpan(c, yRel) ==
    IF BaseShape(c) = "circular"
    THEN LET fill == FillLimitRadius(c)
             xLimit == RoundSqrt(Max(0, fill * fill - yRel * yRel))
         IN  [xLeft |-> CenterX(c) - xLimit, xRight |-> CenterX(c) + xLimit,
              y |-> CenterY(c) + yRel]
    ELSE [xLeft |-> FillX0(c), xRight |-> FillX1(c), y |-> yRel]

\* lines 751-754, 867-870: half speed over the first tenth of the infill
FillSpeed(c, yRel) ==
    IF 10 * (yRel - FillFirst(c)) < FillLast(c) - FillFirst(c)
    THEN c.baseSpeed \div 2 ELSE c.baseSpeed

\* parameters of a call: a 1 mm, a 4 mm and a 4 x 6 mm print on a 250 mm
\* bed, one to three layers from z = 0.2 mm at 0.2 mm each, at 30 mm/s
BaseConfigs ==
    {c \in [pathType : {"spiral", "squareSpiral", "hilbert", "zigzag"},
            bedWidth : {25000}, bedHeight : {25000}, originAtCenter : {FALSE},
            printWidth : {100, 400}, printHeight : {100, 400, 600},
            addCircularBase : {TRUE}, baseMargin : {0, 200},
            baseLayers : {1, 2, 3}, zOffset : {20}, layerHeight : {20},
            filamentDia : {175}, baseSpeed : {1800}, fractalOrder : {3}] :
        /\ c.printWidth = 100 <=> c.printHeight = 100
        /\ c.baseMargin = 0 => c.baseLayers = 2}

NoBase == [pathType |-> "none"]

BaseHead == [x |-> basePrevX, y |-> basePrevY, vol |-> baseTotalE, out |-> baseOut]

SetBaseHead(h) ==
    /\ basePrevX' = h.x
    /\ basePrevY' = h.y
    /\ baseOut' = h.out
    /\ baseTotalE' = h.vol

\* const z of the layer loop (lines 705, 802, 931)
LayerZ == baseCfg.zOffset + baseLayer * baseCfg.layerHeight

BaseIdle ==
    /\ baseCfg = NoBase
    /\ basePc = "idle"
    /\ baseLayer = 0 /\ baseWall = 0 /\ baseI = 0
    /\ baseYRel = 0 /\ baseGoingRight = TRUE
    /\ basePrevX = 0 /\ basePrevY = 0
    /\ baseOut = <<>>
    /\ baseReturned = -1
    /\ baseTotalE = 0 /\ baseArt = <<>> /\ baseReported = -1

\* the generator is entered and has pushed its header comment (lines 702,
\* 799, 928); prevX, prevY are the start point left by line 1230
BaseInit ==
    /\ baseCfg \in BaseConfigs
    /\ basePc = "layer"
    /\ baseLayer = 0 /\ baseWall = 0 /\ baseI = 0
    /\ baseYRel = 0 /\ baseGoingRight = TRUE
    /\ basePrevX = StartPoint(baseCfg).x /\ basePrevY = StartPoint(baseCfg).y
    /\ baseOut = <<Instr("comment", 0, 0, 0, 0, 0, 0)>>
    /\ baseReturned = -1
    /\ baseTotalE = 0                       \* line 1153, handed in at line 1284
    /\ baseArt = <<>> /\ baseReported = -1

\* lines 704-706, 801-803, 930-932: a layer begins
BaseLayerStart ==
    /\ basePc = "layer"
    /\ baseLayer < baseCfg.baseLayers
    /\ baseOut' = Append(baseOut, Instr("G1Z", 0, 0, 0, 1000, LayerZ, baseLayer + 1))
    /\ baseWall' = 0
    /\ basePc' = "walls"
    /\ UNCHANGED <<baseCfg, baseLayer, baseI, baseYRel, baseGoingRight, basePrevX, basePrevY,
                   baseReturned, baseTotalE, baseArt, baseReported>>

\* lines 709-718, 806-816: a wall begins with a travel to its start
BaseWallStart ==
    /\ basePc = "walls"
    /\ baseWall < NUM_WALLS
    /\ SetBaseHead(TravelTo(BaseHead, WallStart(baseCfg, baseWall).x,
                            WallStart(baseCfg, baseWall).y))
    /\ baseI' = 1
    /\ basePc' = "wall"
    /\ UNCHANGED <<baseCfg, baseLayer, baseWall, baseYRel, baseGoingRight, baseReturned,
                   baseArt, baseReported>>

\* lines 720-725, 819-843: one writeBaseSegment call of the wall
BaseWallPoint ==
    /\ basePc = "wall"
    /\ baseI <= WallPoints(baseCfg, baseWall)
    /\ SetBaseHead(WriteBaseSegment(baseCfg, BaseHead, WallPoint(baseCfg, baseWall, baseI).x,
                                    WallPoint(baseCfg, baseWall, baseI).y, baseCfg.baseSpeed))
    /\ baseI' = baseI + 1
    /\ UNCHANGED <<baseCfg, basePc, baseLayer, baseWall, baseYRel, baseGoingRight,
                   baseReturned, baseArt, baseReported>>

\* the wall is closed: w++
BaseWallEnd ==
    /\ basePc = "wall"
    /\ baseI > WallPoints(baseCfg, baseWall)
    /\ baseWall' = baseWall + 1
    /\ basePc' = "walls"
    /\ UNCHANGED <<baseCfg, baseLayer, baseI, baseYRel, baseGoingRight, basePrevX, basePrevY,
                   baseOut, baseReturned, baseTotalE, baseArt, baseReported>>

\* lines 728-729, 846-847, 974-975: retract and lift before the infill
BaseRetractLift ==
    /\ basePc = "walls"
    /\ baseWall >= NUM_WALLS
    /\ baseOut' = baseOut \o <<Instr("G1E", 0, 0, -80000, 3000, 0, 0),
                               Instr("G0Z", 0, 0, 0, 6000, LayerZ + 40, 0)>>
    /\ basePc' = "fillStart"
    /\ UNCHANGED <<baseCfg, baseLayer, baseWall, baseI, baseYRel, baseGoingRight, basePrevX,
                   basePrevY, baseReturned, baseTotalE, baseArt, baseReported>>

\* where the infill starts (lines 737-743, 858-862, 986-990)
FillStart(c) ==
    IF BaseShape(c) = "circular"
    THEN [x |-> CenterX(c), y |-> CenterY(c) - FillLimitRadius(c)]
    ELSE [x |-> FillX0(c), y |-> FillY0(c)]

\* slip: the filament is not restored after the retraction
BaseInfillStartNoPrime ==
    /\ basePc = "fillStart"
    /\ baseOut' = baseOut \o <<Instr("G0XY", FillStart(baseCfg).x, FillStart(baseCfg).y,
                                     0, 6000, 0, 0),
                               Instr("G1Z", 0, 0, 0, 1000, LayerZ, 0)>>
    /\ basePrevX' = FillStart(baseCfg).x
    /\ basePrevY' = FillStart(baseCfg).y
    /\ baseYRel' = FillFirst(baseCfg)
    /\ baseGoingRight' = TRUE
    /\ basePc' = "fill"
    /\ UNCHANGED <<baseCfg, baseLayer, baseWall, baseI, baseReturned, baseTotalE, baseArt,
                   baseReported>>

\* lines 739-743, 858-862, 986-990: move to the fill start, lower, prime
BaseInfillStart ==
    /\ basePc = "fillStart"
    /\ baseOut' = baseOut \o <<Instr("G0XY", FillStart(baseCfg).x, FillStart(baseCfg).y,
                                     0, 6000, 0, 0),
                               Instr("G1Z", 0, 0, 0, 1000, LayerZ, 0),
                               Instr("G1E", 0, 0, 90000, 3000, 0, 0)>>
    /\ basePrevX' = FillStart(baseCfg).x
    /\ basePrevY' = FillStart(baseCfg).y
    /\ baseYRel' = FillFirst(baseCfg)
    /\ baseGoingRight' = TRUE
    /\ basePc' = "fill"
    /\ UNCHANGED <<baseCfg, baseLayer, baseWall, baseI, baseReturned, baseTotalE, baseArt,
                   baseReported>>

\* lines 745-764, 866-880, 994-1008: one pass of the infill loop
BaseInfillLine ==
    /\ basePc = "fill"
    /\ baseYRel <= FillLast(baseCfg)
    /\ SetBaseHead(FillLine(baseCfg, BaseHead, FillSpan(baseCfg, baseYRel).xLeft,
                            FillSpan(baseCfg, baseYRel).xRight, FillSpan(baseCfg, baseYRel).y,
                            baseGoingRight, FillSpeed(baseCfg, baseYRel)))
    /\ baseYRel' = baseYRel + BASE_OVERLAP
    /\ baseGoingRight' = ~baseGoingRight
    /\ UNCHANGED <<baseCfg, basePc, baseLayer, baseWall, baseI, baseReturned, baseArt,
                   baseReported>>

\* lines 765, 882, 1009: the infill loop is over; the lift that closes the
\* layer, and layer++
BaseLayerClose ==
    /\ basePc = "fill"
    /\ baseYRel > FillLast(baseCfg)
    /\ baseOut' = Append(baseOut, Instr("G0Z", 0, 0, 0, 6000, LayerZ + 50, 0))
    /\ baseLayer' = baseLayer + 1
    /\ basePc' = "layer"
    /\ UNCHANGED <<baseCfg, baseWall, baseI, baseYRel, baseGoingRight, basePrevX, basePrevY,
                   baseReturned, baseTotalE, baseArt, baseReported>>

\* lines 768-771, 885-888, 1012-1015: the layer loop is over
BaseReturn ==
    /\ basePc = "layer"
    /\ baseLayer >= baseCfg.baseLayers
    /\ baseReturned' = BaseInnerMargin(baseCfg)
    /\ basePc' = "returned"
    /\ UNCHANGED <<baseCfg, baseLayer, baseWall, baseI, baseYRel, baseGoingRight, basePrevX,
                   basePrevY, baseOut, baseTotalE, baseArt, baseReported>>

\* the most writeMove calls followed after a base
MaxArtMoves == 2

\* destinations and line widths of the writeMove calls that follow the base:
\* the start point, and points 0.5 mm and 0.58 mm from it; 0.4 and 1.2 mm
ArtTargets(c) ==
    {[x |-> StartPoint(c).x + o[1], y |-> StartPoint(c).y + o[2]] :
        o \in {<<0, 0>>, <<50, 0>>, <<50, 30>>}}
ArtWidths == {40, 120}

\* lines 1298-1301 and 1333-1334: the caller takes over the generator's
\* running total, and the head is put at the start point
BaseHandBack ==
    /\ basePc = "returned"
    /\ basePrevX' = StartPoint(baseCfg).x
    /\ basePrevY' = StartPoint(baseCfg).y
    /\ basePc' = "art"
    /\ UNCHANGED <<baseCfg, baseLayer, baseWall, baseI, baseYRel, baseGoingRight, baseOut,
                   baseReturned, baseTotalE, baseArt, baseReported>>

\* one writeMove call of the pattern that follows (lines 1355-1384)
BaseArtMove ==
    /\ basePc = "art"
    /\ Len(baseArt) < MaxArtMoves
    /\ \E p \in ArtTargets(baseCfg), w \in ArtWidths, isTravel \in BOOLEAN :
          LET h == WriteMove(baseCfg,
                             [x |-> basePrevX, y |-> basePrevY, vol |-> baseTotalE,
                              out |-> baseArt],
                             p.x, p.y, w, 1200, isTravel, -1, FALSE)
          IN  /\ basePrevX' = h.x
              /\ basePrevY' = h.y
              /\ baseTotalE' = h.vol
              /\ baseArt' = h.out
    /\ UNCHANGED <<baseCfg, basePc, baseLayer, baseWall, baseI, baseYRel, baseGoingRight,
                   baseOut, baseReturned, baseReported>>

\* totalE.toFixed(2), 0.01 mm
TotalFixed2(vol, filArea) == RoundDiv(vol, filArea)

\* line 1638: the trailer reports the running total
BaseTrailer ==
    /\ basePc = "art"
    /\ baseReported' = TotalFixed2(baseTotalE, FilArea(baseCfg))
    /\ basePc' = "reported"
    /\ UNCHANGED <<baseCfg, baseLayer, baseWall, baseI, baseYRel, baseGoingRight, basePrevX,
                   basePrevY, baseOut, baseReturned, baseTotalE, baseArt>>

----------------------------------------------------------------------------
(* The instruction list of a run: header, base, filament-change transition, *)
(* start of the artwork, trailer and merge (src/script.js 1208-1349,        *)
(* 1637-1644). Lines are sequences of characters.                           *)

\* line 1209
LINE_TITLE ==
    <<";", " ", "-", "-", "-", " ", "G", "-", "C", "o", "d", "e", " ", "A", "r", "t",
      " ", "G", "e", "n", "e", "r", "a", "t", "o", "r", " ", "(", "I", "m", "p", "r",
      "o", "v", "e", "d", ")", " ", "-", "-", "-">>

\* line 1210
LINE_G90_ABS ==
    <<"G", "9", "0", " ", ";", " ", "A", "b", "s", "o", "l", "u", "t", "e", " ", "C",
      "o", "o", "r", "d", "i", "n", "a", "t", "e", "s", " ", "(", "X", "Y", "Z", "E",
      ")">>

\* line 1211
LINE_M83 ==
    <<"M", "8", "3", " ", ";", " ", "R", "e", "l", "a", "t", "i", "v", "e", " ", "E",
      "x", "t", "r", "u", "s", "i", "o", "n">>

\* line 1258
TEXT_SELECT_BASE ==
    <<" ", ";", " ", "S", "e", "l", "e", "c", "t", " ", "B", "a", "s", "e", " ", "F",
      "i", "l", "a", "m", "e", "n", "t", " ", "S", "l", "o", "t">>

\* line 1259
LINE_WAIT_LOAD ==
    <<"M", "4", "0", "0", " ", ";", " ", "W", "a", "i", "t", " ", "f", "o", "r", " ",
      "l", "o", "a", "d">>

\* line 702
LINE_BASE_HEADER ==
    <<";", " ", "-", "-", "-", " ", "C", "i", "r", "c", "u", "l", "a", "r", " ", "B",
      "a", "s", "e", " ", "(", "A", "d", "a", "p", "t", "i", "v", "e", ")", " ", "-",
      "-", "-">>

\* line 1304
LINE_TRANSITION ==
    <<";", " ", "-", "-", "-", " ", "T", "R", "A", "N", "S", "I", "T", "I", "O", "N",
      " ", "T", "O", " ", "A", "R", "T", "W", "O", "R", "K", " ", "-", "-", "-">>

\* lines 1307, 1312
LINE_M400 ==
    <<"M", "4", "0", "0">>

\* lines 1308, 1317
LINE_G91 ==
    <<"G", "9", "1">>

\* line 1309
LINE_LIFT_AMS ==
    <<"G", "1", " ", "Z", "5", " ", "F", "3", "0", "0", "0">>

\* lines 1310, 1320
LINE_G90 ==
    <<"G", "9", "0">>

\* line 1318
LINE_RETRACT ==
    <<"G", "1", " ", "E", "-", "5", " ", "F", "3", "0", "0", "0">>

\* line 1319
LINE_LIFT ==
    <<"G", "1", " ", "Z", "1", "0", " ", "F", "1", "0", "0", "0">>

\* line 1321
TEXT_PARK ==
    <<" ", "F", "6", "0", "0", "0", " ", ";", " ", "P", "a", "r", "k", " ", "a", "t",
      " ", "b", "e", "d", " ", "c", "e", "n", "t", "e", "r", " ", "f", "o", "r", " ",
      "f", "i", "l", "a", "m", "e", "n", "t", " ", "c", "h", "a", "n", "g", "e">>

\* line 1322
LINE_M600 ==
    <<"M", "6", "0", "0">>

\* line 1326
LINE_STARTING ==
    <<";", " ", "-", "-", "-", " ", "S", "T", "A", "R", "T", "I", "N", "G", " ", "A",
      "R", "T", "W", "O", "R", "K", " ", "D", "R", "A", "W", "I", "N", "G", " ", "-",
      "-", "-">>

\* line 1331
LINE_PRIME ==
    <<"G", "1", " ", "E", "0", ".", "5", " ", "F", "6", "0", "0">>

\* line 1332
LINE_DWELL ==
    <<"G", "4", " ", "P", "2", "0", "0">>

\* line 1336
LINE_G92 ==
    <<"G", "9", "2", " ", "E", "0">>

\* line 1638
TEXT_TOTAL ==
    <<";", " ", "T", "o", "t", "a", "l", " ", "E", "x", "t", "r", "u", "d", "e", "d",
      ":", " ", "E">>

\* line 1639
LINE_END_BLOCK ==
    <<";", " ", "-", "-", "-", " ", "E", "n", "d", " ", "o", "f", " ", "C", "e", "n",
      "t", "r", "a", "l", " ", "G", "-", "C", "o", "d", "e", " ", "B", "l", "o", "c",
      "k", " ", "-", "-", "-">>

\* line 1252
SLOT_T0 ==
    <<"T", "0">>

\* line 1253
SLOT_T1 ==
    <<"T", "1">>

\* line 1253
SLOT_T2 ==
    <<"T", "2">>

\* a template with both markers
TEMPLATE_MARKED ==
    <<"G", "2", "8", "\n", ";", "S", "T", "A", "R", "T", "_", "A", "R", "T", "\n", ";",
      "E", "N", "D", "_", "A", "R", "T", "\n", "M", "8", "4">>

\* a template with the start marker only
TEMPLATE_START_ONLY ==
    <<"G", "2", "8", "\n", ";", "s", "t", "a", "r", "t", "_", "a", "r", "t", "\n", "M",
      "8", "4">>

\* a template without markers
TEMPLATE_UNMARKED ==
    <<"G", "2", "8", "\n", "M", "8", "4">>

DigitChars == <<"0", "1", "2", "3", "4", "5", "6", "7", "8", "9">>

\* the decimal digits of n >= 0
RECURSIVE Digits(_)
Digits(n) ==
    IF n < 10 THEN <<DigitChars[n + 1]>>
    ELSE Digits(n \div 10) \o <<DigitChars[(n % 10) + 1]>>

\* Number.prototype.toFixed(3) of a length held in 0.01 units
ToFixed3(v) ==
    (IF v < 0 THEN <<"-">> ELSE <<>>) \o Digits(Abs(v) \div 100) \o <<".">>
        \o <<DigitChars[((Abs(v) \div 10) % 10) + 1], DigitChars[(Abs(v) % 10) + 1], "0">>

\* `G0 X${x.toFixed(3)} Y${y.toFixed(3)}`
G0XY(x, y) == <<"G", "0", " ", "X">> \o ToFixed3(x) \o <<" ", "Y">> \o ToFixed3(y)
F6000 == <<" ", "F", "6", "0", "0", "0">>
F3000 == <<" ", "F", "3", "0", "0", "0">>
F1000 == <<" ", "F", "1", "0", "0", "0">>
G0Z(z) == <<"G", "0", " ", "Z">> \o ToFixed3(z)
G1Z(z) == <<"G", "1", " ", "Z">> \o ToFixed3(z)

\* line 1152: safeZ = zOffset + 5.0
SafeZ(c) == c.zOffset + 500

\* lines 1315-1316: parkX, parkY
ParkPoint(c) ==
    [x |-> IF c.originAtCenter THEN 0 ELSE c.bedWidth \div 2,
     y |-> IF c.originAtCenter THEN 0 ELSE c.bedHeight \div 2]

\* line 1321
ParkLine(c) == G0XY(ParkPoint(c).x, ParkPoint(c).y) \o TEXT_PARK

\* lines 1257-1262 and the generator's output, of which the header comment
\* and the last layer's closing lift are kept: the lines in between are
\* G0 / G1 instructions (SpecBase)
BaseBlock(c) ==
    (IF c.changeMode = "ams"
     THEN <<c.amsBaseSlot \o TEXT_SELECT_BASE, LINE_WAIT_LOAD>> ELSE <<>>)
    \o <<G0Z(SafeZ(c)) \o F6000,
         LINE_BASE_HEADER,
         G0Z(c.zOffset + (c.baseLayers - 1) * c.layerHeight + 50) \o F6000>>

\* slip: the operator pause left in the slot-select branch
TransitionBlockPausingAlways(c) ==
    <<LINE_TRANSITION>>
    \o (IF c.changeMode = "ams"
        THEN <<LINE_M400, LINE_G91, LINE_LIFT_AMS, LINE_G90, c.amsDrawingSlot, LINE_M400,
               LINE_M600>>
        ELSE <<LINE_G91, LINE_RETRACT, LINE_LIFT, LINE_G90, ParkLine(c), LINE_M600>>)

\* lines 1304-1323: the transition to the artwork
TransitionBlock(c) ==
    <<LINE_TRANSITION>>
    \o (IF c.changeMode = "ams"
        THEN <<LINE_M400, LINE_G91, LINE_LIFT_AMS, LINE_G90, c.amsDrawingSlot, LINE_M400>>
        ELSE <<LINE_G91, LINE_RETRACT, LINE_LIFT, LINE_G90, ParkLine(c), LINE_M600>>)

\* line 1325: drawingStartZ
DrawingStartZ(c) == c.zOffset + c.baseLayers * c.layerHeight

\* lines 1326-1336: the head is brought to the start point and primed
StartAfterBase(c) ==
    <<LINE_STARTING,
      G0XY(StartPoint(c).x, StartPoint(c).y) \o <<" ", "Z">>
          \o ToFixed3(DrawingStartZ(c) + 200) \o F6000,
      G1Z(DrawingStartZ(c)) \o F1000,
      LINE_PRIME, LINE_DWELL, LINE_G92>>

\* lines 1341-1347: the start of a run without a base
StartWithoutBase(c) ==
    (IF c.changeMode = "ams" THEN <<c.amsDrawingSlot>> ELSE <<>>)
    \o <<G0Z(SafeZ(c)) \o F3000,
         G0XY(StartPoint(c).x, StartPoint(c).y) \o F6000,
         G1Z(c.zOffset) \o F1000>>

\* lines 1637-1639, for a pattern that extruded nothing
Trailer(c) ==
    <<G0Z(SafeZ(c)) \o F3000,
      TEXT_TOTAL \o <<"0", ".", "0", "0">>,
      LINE_END_BLOCK>>

\* the templates a session may have loaded: none, without markers, with the
\* start marker, with both markers
ChTemplates == {Null, TEMPLATE_UNMARKED, TEMPLATE_START_ONLY, TEMPLATE_MARKED}

ChConfigs ==
    [pathType : {"spiral"}, changeMode : Modes,
     addCircularBase : BOOLEAN, originAtCenter : BOOLEAN,
     bedWidth : {25000, 18000}, bedHeight : {25000},
     printWidth : {400}, printHeight : {400},
     zOffset : {20}, layerHeight : {20}, baseLayers : {2},
     amsBaseSlot : {SLOT_T0}, amsDrawingSlot : {SLOT_T1, SLOT_T2},
     template : ChTemplates]

NoChange == [pathType |-> "none"]

ChIdle ==
    /\ chCfg = NoChange
    /\ chPc = "idle"
    /\ chGcode = <<>>
    /\ chFinal = Null

\* processImageCore has parsed the form (lines 1069-1124, 1251-1253)
ChInit ==
    /\ chCfg \in ChConfigs
    /\ chPc = "begin"
    /\ chGcode = <<>>
    /\ chFinal = Null

\* lines 1208-1211: let gcode = [] and the three header lines
ChBegin ==
    /\ chPc = "begin"
    /\ chGcode' = <<LINE_TITLE, LINE_G90_ABS, LINE_M83>>
    /\ chPc' = IF chCfg.addCircularBase THEN "base" ELSE "nobase"
    /\ UNCHANGED <<chCfg, chFinal>>

\* lines 1256-1301: slot selection for the base, lift, base generator
ChBase ==
    /\ chPc = "base"
    /\ chGcode' = chGcode \o BaseBlock(chCfg)
    /\ chPc' = "transition"
    /\ UNCHANGED <<chCfg, chFinal>>

\* lines 1303-1339: transition and start of the artwork
ChTransition ==
    /\ chPc = "transition"
    /\ chGcode' = chGcode \o TransitionBlock(chCfg) \o StartAfterBase(chCfg)
    /\ chPc' = "pattern"
    /\ UNCHANGED <<chCfg, chFinal>>

\* lines 1340-1349: no base
ChNoBase ==
    /\ chPc = "nobase"
    /\ chGcode' = chGcode \o StartWithoutBase(chCfg)
    /\ chPc' = "pattern"
    /\ UNCHANGED <<chCfg, chFinal>>

\* lines 1480-1634: the pattern, of which one travel move is kept (its
\* lines are G0 / G1 instructions, SpecArt)
ChPattern ==
    /\ chPc = "pattern"
    /\ chGcode' = Append(chGcode, G0XY(StartPoint(chCfg).x, StartPoint(chCfg).y) \o F6000)
    /\ chPc' = "trailer"
    /\ UNCHANGED <<chCfg, chFinal>>

\* lines 1637-1644: trailer, join, merge
ChFinish ==
    /\ chPc = "trailer"
    /\ chGcode' = chGcode \o Trailer(chCfg)
    /\ chFinal' = MergeWithTemplate(chCfg.template, chCfg.changeMode,
                                    Join(chGcode \o Trailer(chCfg), NL)).out
    /\ chPc' = "done"
    /\ UNCHANGED chCfg

----------------------------------------------------------------------------
(* The pixel cache: cleanup (src/script.js 268-276), the image loader      *)
(* (512-596) and the head of processImageCore (1126-1146).  An image file  *)
(* is identified by its number; its pixels are known by the number of the  *)
(* image they were decoded from.                                           *)

\* the most files chosen
MaxLoads == 3

\* width and height of the images chosen
ImageSizes == {<<2, 2>>, <<2, 3>>}

NoImage == [id |-> 0]
NoPixels == [from |-> 0]
NoDims == [width |-> -1, height |-> -1]
NoRunPixels == [pixelsFrom |-> 0]

CacheIdle ==
    /\ cacheImage = NoImage
    /\ cachedPixels = NoPixels
    /\ cachedDimensions = NoDims
    /\ readsPending = {}
    /\ filesChosen = 0
    /\ installed = <<>>
    /\ coreScheduled = FALSE
    /\ runPixels = NoRunPixels

\* appState as the page starts (lines 174-180)
CacheInit == CacheIdle

\* lines 512-531 and 596: a file that passes the checks is handed to a
\* FileReader
CacheChooseFile ==
    /\ filesChosen < MaxLoads
    /\ \E sz \in ImageSizes :
          readsPending' = readsPending \cup
              {[id |-> filesChosen + 1, width |-> sz[1], height |-> sz[2]]}
    /\ filesChosen' = filesChosen + 1
    /\ UNCHANGED <<cacheImage, cachedPixels, cachedDimensions, installed, coreScheduled,
                   runPixels>>

\* slip: cleanup leaves the cache alone
CleanedCacheKept == [pixels |-> cachedPixels, dims |-> cachedDimensions]

\* lines 274-275: what cleanup leaves in cachedPixels and cachedDimensions
CleanedCache == [pixels |-> NoPixels, dims |-> NoDims]

\* lines 533-536 and 583: reader.onload calls cleanup and installs a fresh
\* Image, which starts to decode the file
CacheReaderOnload ==
    /\ \E r \in readsPending :
          /\ readsPending' = readsPending \ {r}
          /\ cacheImage' = [id |-> r.id, state |-> "loading", width |-> r.width,
                            height |-> r.height]
          /\ installed' = Append(installed, r)
    /\ cachedPixels' = CleanedCache.pixels
    /\ cachedDimensions' = CleanedCache.dims
    /\ UNCHANGED <<filesChosen, coreScheduled, runPixels>>

\* lines 538-575: the image has been decoded, its width and height are known
CacheImageOnload ==
    /\ cacheImage # NoImage /\ cacheImage.state = "loading"
    /\ cacheImage' = [cacheImage EXCEPT !.state = "complete"]
    /\ UNCHANGED <<cachedPixels, cachedDimensions, readsPending, filesChosen, installed,
                   coreScheduled, runPixels>>

\* lines 577-581: the file could not be decoded
CacheImageOnerror ==
    /\ cacheImage # NoImage /\ cacheImage.state = "loading"
    /\ cacheImage' = [cacheImage EXCEPT !.state = "broken"]
    /\ UNCHANGED <<cachedPixels, cachedDimensions, readsPending, filesChosen, installed,
                   coreScheduled, runPixels>>

\* processImage (lines 1023-1063) with an image present: the button is
\* disabled until the timer callback has run
CacheProcessImage ==
    /\ cacheImage # NoImage
    /\ ~coreScheduled
    /\ coreScheduled' = TRUE
    /\ UNCHANGED <<cacheImage, cachedPixels, cachedDimensions, readsPending, filesChosen,
                   installed, runPixels>>

\* lines 1126-1127: the width and height of an Image are 0 until it is
\* decoded
AnaSize(img) ==
    IF img.state = "complete" THEN [width |-> img.width, height |-> img.height]
    ELSE [width |-> 0, height |-> 0]

\* lines 1131-1135: the test for a usable cache
CacheHit(img) == cachedPixels # NoPixels /\ cachedDimensions = AnaSize(img)

\* the timer callback up to line 1146: with a usable cache the run samples
\* the cached pixels; otherwise it decodes the image and caches the result,
\* unless the size is 0 x 0, where getImageData throws
CacheRunCore ==
    /\ coreScheduled
    /\ coreScheduled' = FALSE
    /\ IF CacheHit(cacheImage)
       THEN /\ runPixels' = [pixelsFrom |-> cachedPixels.from, image |-> cacheImage.id,
                             hit |-> TRUE]
            /\ UNCHANGED <<cachedPixels, cachedDimensions>>
       ELSE IF AnaSize(cacheImage).width = 0
       THEN /\ runPixels' = NoRunPixels
            /\ UNCHANGED <<cachedPixels, cachedDimensions>>
       ELSE /\ cachedPixels' = [from |-> cacheImage.id]
            /\ cachedDimensions' = AnaSize(cacheImage)
            /\ runPixels' = [pixelsFrom |-> cacheImage.id, image |-> cacheImage.id,
                             hit |-> FALSE]
    /\ UNCHANGED <<cacheImage, readsPending, filesChosen, installed>>

\* the timer callback when processImageCore returns before line 1126 (a
\* validation message, lines 1093-1107)
CacheRunRejected ==
    /\ coreScheduled
    /\ coreScheduled' = FALSE
    /\ runPixels' = NoRunPixels
    /\ UNCHANGED <<cacheImage, cachedPixels, cachedDimensions, readsPending, filesChosen,
                   installed>>

----------------------------------------------------------------------------
(* Specifications, one per component *)

HilbertIdle ==
    /\ order = 0
    /\ d = 0
    /\ cell = [x |-> 0, y |-> 0]
    /\ prevCell = [x |-> 0, y |-> 0]
    /\ visited = {}

NextHilbert == HilbertNext /\ UNCHANGED <<mergeVars, artVars, spiralVars, samplerVars, runVars,
        viewVars, parseVars, baseVars, chVars, cacheVars>>
InitHilbert == HilbertInit /\ MergeIdle /\ ArtIdle /\ SpiralIdle /\ SamplerIdle /\ RunIdle
        /\ ViewIdle /\ ParseIdle /\ BaseIdle /\ ChIdle /\ CacheIdle
SpecHilbert == InitHilbert /\ [][NextHilbert]_vars

NextMerge == MergeRun /\ UNCHANGED <<hilbertVars, artVars, spiralVars, samplerVars, runVars,
        viewVars, parseVars, baseVars, chVars, cacheVars>>
InitMerge == MergeInit /\ HilbertIdle /\ ArtIdle /\ SpiralIdle /\ SamplerIdle /\ RunIdle
        /\ ViewIdle /\ ParseIdle /\ BaseIdle /\ ChIdle /\ CacheIdle
SpecMerge == InitMerge /\ [][NextMerge]_vars

NextArt ==
    \/ ArtStart /\ UNCHANGED <<hilbertVars, mergeVars, spiralVars, samplerVars, runVars,
        viewVars, parseVars, baseVars, chVars, cacheVars>>
    \/ ArtHilbertStep /\ UNCHANGED <<hilbertVars, mergeVars, spiralVars, samplerVars, runVars,
        viewVars, parseVars, baseVars, chVars, cacheVars>>
    \/ ArtZigzagStep /\ UNCHANGED <<hilbertVars, mergeVars, spiralVars, samplerVars, runVars,
        viewVars, parseVars, baseVars, chVars, cacheVars>>
    \/ ArtSquareStep /\ UNCHANGED <<hilbertVars, mergeVars, spiralVars, samplerVars, runVars,
        viewVars, parseVars, baseVars, chVars, cacheVars>>
    \/ ArtSquareAfter /\ UNCHANGED <<hilbertVars, mergeVars, spiralVars, samplerVars, runVars,
        viewVars, parseVars, baseVars, chVars, cacheVars>>
    \/ ArtFinish /\ UNCHANGED <<hilbertVars, mergeVars, spiralVars, samplerVars, runVars,
        viewVars, parseVars, baseVars, chVars, cacheVars>>
    \/ ArtFail /\ UNCHANGED <<hilbertVars, mergeVars, spiralVars, samplerVars, runVars,
        viewVars, parseVars, baseVars, chVars, cacheVars>>
    \/ ArtAgain /\ UNCHANGED <<hilbertVars, mergeVars, spiralVars, samplerVars, runVars,
        viewVars, parseVars, baseVars, chVars, cacheVars>>
InitArt == ArtInit /\ HilbertIdle /\ MergeIdle /\ SpiralIdle /\ SamplerIdle /\ RunIdle
        /\ ViewIdle /\ ParseIdle /\ BaseIdle /\ ChIdle /\ CacheIdle
SpecArt == InitArt /\ [][NextArt]_vars

\* sequential code: a step that can be taken is taken
NextSpiral ==
    \/ SpiralIterate /\ UNCHANGED <<hilbertVars, mergeVars, artVars, samplerVars, runVars,
        viewVars, parseVars, baseVars, chVars, cacheVars>>
    \/ SpiralExit /\ UNCHANGED <<hilbertVars, mergeVars, artVars, samplerVars, runVars,
        viewVars, parseVars, baseVars, chVars, cacheVars>>
    \/ SquareIterate /\ UNCHANGED <<hilbertVars, mergeVars, artVars, samplerVars, runVars,
        viewVars, parseVars, baseVars, chVars, cacheVars>>
    \/ SquareExit /\ UNCHANGED <<hilbertVars, mergeVars, artVars, samplerVars, runVars,
        viewVars, parseVars, baseVars, chVars, cacheVars>>
    \/ SpiralAfter /\ UNCHANGED <<hilbertVars, mergeVars, artVars, samplerVars, runVars,
        viewVars, parseVars, baseVars, chVars, cacheVars>>
    \/ SpiralPublish /\ UNCHANGED <<hilbertVars, mergeVars, artVars, samplerVars, runVars,
        viewVars, parseVars, baseVars, chVars, cacheVars>>
InitSpiral == SpiralInit /\ HilbertIdle /\ MergeIdle /\ ArtIdle /\ SamplerIdle /\ RunIdle
        /\ ViewIdle /\ ParseIdle /\ BaseIdle /\ ChIdle /\ CacheIdle
SpecSpiral == InitSpiral /\ [][NextSpiral]_vars /\ WF_vars(NextSpiral)

NextSampler == SampleBoth /\ UNCHANGED <<hilbertVars, mergeVars, artVars, spiralVars, runVars,
        viewVars, parseVars, baseVars, chVars, cacheVars>>
InitSampler == SamplerInit /\ HilbertIdle /\ MergeIdle /\ ArtIdle /\ SpiralIdle /\ RunIdle
        /\ ViewIdle /\ ParseIdle /\ BaseIdle /\ ChIdle /\ CacheIdle
SpecSampler == InitSampler /\ [][NextSampler]_vars

NextRun ==
    \/ ImageFileRead /\ UNCHANGED <<hilbertVars, mergeVars, artVars, spiralVars, samplerVars,
        parseVars, baseVars, chVars, cacheVars>>
    \/ ImageOnload /\ UNCHANGED <<hilbertVars, mergeVars, artVars, spiralVars, samplerVars,
        parseVars, baseVars, chVars, cacheVars>>
    \/ ImageOnerror /\ UNCHANGED <<hilbertVars, mergeVars, artVars, spiralVars, samplerVars,
        parseVars, baseVars, chVars, cacheVars>>
    \/ EditForm /\ UNCHANGED <<hilbertVars, mergeVars, artVars, spiralVars, samplerVars,
        parseVars, baseVars, chVars, cacheVars>>
    \/ ClickGenerate /\ UNCHANGED <<hilbertVars, mergeVars, artVars, spiralVars, samplerVars,
        parseVars, baseVars, chVars, cacheVars>>
    \/ CtrlEnter /\ UNCHANGED <<hilbertVars, mergeVars, artVars, spiralVars, samplerVars,
        parseVars, baseVars, chVars, cacheVars>>
    \/ RunTimerFires /\ UNCHANGED <<hilbertVars, mergeVars, artVars, spiralVars, samplerVars,
        parseVars, baseVars, chVars, cacheVars>>
    \/ ClickDownload /\ UNCHANGED <<hilbertVars, mergeVars, artVars, spiralVars, samplerVars,
        parseVars, baseVars, chVars, cacheVars>>
    \/ CtrlS /\ UNCHANGED <<hilbertVars, mergeVars, artVars, spiralVars, samplerVars, parseVars,
        baseVars, chVars, cacheVars>>
InitRun == RunInit /\ HilbertIdle /\ MergeIdle /\ ArtIdle /\ SpiralIdle /\ SamplerIdle
        /\ ParseIdle /\ BaseIdle /\ ChIdle /\ CacheIdle
SpecRun == InitRun /\ [][NextRun]_vars

NextView ==
    \/ ImageFileRead /\ UNCHANGED <<hilbertVars, mergeVars, artVars, spiralVars, samplerVars,
        parseVars, baseVars, chVars, cacheVars>>
    \/ ImageOnload /\ UNCHANGED <<hilbertVars, mergeVars, artVars, spiralVars, samplerVars,
        parseVars, baseVars, chVars, cacheVars>>
    \/ ImageOnerror /\ UNCHANGED <<hilbertVars, mergeVars, artVars, spiralVars, samplerVars,
        parseVars, baseVars, chVars, cacheVars>>
    \/ MouseDown /\ UNCHANGED <<hilbertVars, mergeVars, artVars, spiralVars, samplerVars,
        parseVars, baseVars, chVars, cacheVars>>
    \/ MouseUp /\ UNCHANGED <<hilbertVars, mergeVars, artVars, spiralVars, samplerVars,
        parseVars, baseVars, chVars, cacheVars>>
    \/ MouseMove /\ UNCHANGED <<hilbertVars, mergeVars, artVars, spiralVars, samplerVars,
        parseVars, baseVars, chVars, cacheVars>>
    \/ Wheel /\ UNCHANGED <<hilbertVars, mergeVars, artVars, spiralVars, samplerVars, parseVars,
        baseVars, chVars, cacheVars>>
InitView == ViewInit /\ HilbertIdle /\ MergeIdle /\ ArtIdle /\ SpiralIdle /\ SamplerIdle
        /\ ParseIdle /\ BaseIdle /\ ChIdle /\ CacheIdle
SpecView == InitView /\ [][NextView]_vars

NextParse ==
    \/ ParseParameter /\ UNCHANGED <<hilbertVars, mergeVars, artVars, spiralVars, samplerVars,
        runVars, viewVars, baseVars, chVars, cacheVars>>
    \/ ParseDone /\ UNCHANGED <<hilbertVars, mergeVars, artVars, spiralVars, samplerVars,
        runVars, viewVars, baseVars, chVars, cacheVars>>
InitParse == ParseInit /\ HilbertIdle /\ MergeIdle /\ ArtIdle /\ SpiralIdle /\ SamplerIdle
        /\ RunIdle /\ ViewIdle /\ BaseIdle /\ ChIdle /\ CacheIdle
SpecParse == InitParse /\ [][NextParse]_vars

NextBase ==
    \/ BaseLayerStart /\ UNCHANGED <<hilbertVars, mergeVars, artVars, spiralVars, samplerVars,
        runVars, viewVars, parseVars, chVars, cacheVars>>
    \/ BaseWallStart /\ UNCHANGED <<hilbertVars, mergeVars, artVars, spiralVars, samplerVars,
        runVars, viewVars, parseVars, chVars, cacheVars>>
    \/ BaseWallPoint /\ UNCHANGED <<hilbertVars, mergeVars, artVars, spiralVars, samplerVars,
        runVars, viewVars, parseVars, chVars, cacheVars>>
    \/ BaseWallEnd /\ UNCHANGED <<hilbertVars, mergeVars, artVars, spiralVars, samplerVars,
        runVars, viewVars, parseVars, chVars, cacheVars>>
    \/ BaseRetractLift /\ UNCHANGED <<hilbertVars, mergeVars, artVars, spiralVars, samplerVars,
        runVars, viewVars, parseVars, chVars, cacheVars>>
    \/ BaseInfillStart /\ UNCHANGED <<hilbertVars, mergeVars, artVars, spiralVars, samplerVars,
        runVars, viewVars, parseVars, chVars, cacheVars>>
    \/ BaseInfillLine /\ UNCHANGED <<hilbertVars, mergeVars, artVars, spiralVars, samplerVars,
        runVars, viewVars, parseVars, chVars, cacheVars>>
    \/ BaseLayerClose /\ UNCHANGED <<hilbertVars, mergeVars, artVars, spiralVars, samplerVars,
        runVars, viewVars, parseVars, chVars, cacheVars>>
    \/ BaseReturn /\ UNCHANGED <<hilbertVars, mergeVars, artVars, spiralVars, samplerVars,
        runVars, viewVars, parseVars, chVars, cacheVars>>
    \/ BaseHandBack /\ UNCHANGED <<hilbertVars, mergeVars, artVars, spiralVars, samplerVars,
        runVars, viewVars, parseVars, chVars, cacheVars>>
    \/ BaseArtMove /\ UNCHANGED <<hilbertVars, mergeVars, artVars, spiralVars, samplerVars,
        runVars, viewVars, parseVars, chVars, cacheVars>>
    \/ BaseTrailer /\ UNCHANGED <<hilbertVars, mergeVars, artVars, spiralVars, samplerVars,
        runVars, viewVars, parseVars, chVars, cacheVars>>
InitBase == BaseInit /\ HilbertIdle /\ MergeIdle /\ ArtIdle /\ SpiralIdle /\ SamplerIdle
        /\ RunIdle /\ ViewIdle /\ ParseIdle /\ ChIdle /\ CacheIdle
SpecBase == InitBase /\ [][NextBase]_vars

NextChange ==
    \/ ChBegin /\ UNCHANGED <<hilbertVars, mergeVars, artVars, spiralVars, samplerVars, runVars,
        viewVars, parseVars, baseVars, cacheVars>>
    \/ ChBase /\ UNCHANGED <<hilbertVars, mergeVars, artVars, spiralVars, samplerVars, runVars,
        viewVars, parseVars, baseVars, cacheVars>>
    \/ ChTransition /\ UNCHANGED <<hilbertVars, mergeVars, artVars, spiralVars, samplerVars,
        runVars, viewVars, parseVars, baseVars, cacheVars>>
    \/ ChNoBase /\ UNCHANGED <<hilbertVars, mergeVars, artVars, spiralVars, samplerVars,
        runVars, viewVars, parseVars, baseVars, cacheVars>>
    \/ ChPattern /\ UNCHANGED <<hilbertVars, mergeVars, artVars, spiralVars, samplerVars,
        runVars, viewVars, parseVars, baseVars, cacheVars>>
    \/ ChFinish /\ UNCHANGED <<hilbertVars, mergeVars, artVars, spiralVars, samplerVars,
        runVars, viewVars, parseVars, baseVars, cacheVars>>
InitChange == ChInit /\ HilbertIdle /\ MergeIdle /\ ArtIdle /\ SpiralIdle /\ SamplerIdle
        /\ RunIdle /\ ViewIdle /\ ParseIdle /\ BaseIdle /\ CacheIdle
SpecChange == InitChange /\ [][NextChange]_vars

NextCache ==
    \/ CacheChooseFile /\ UNCHANGED <<hilbertVars, mergeVars, artVars, spiralVars, samplerVars,
        runVars, viewVars, parseVars, baseVars, chVars>>
    \/ CacheReaderOnload /\ UNCHANGED <<hilbertVars, mergeVars, artVars, spiralVars,
        samplerVars, runVars, viewVars, parseVars, baseVars, chVars>>
    \/ CacheImageOnload /\ UNCHANGED <<hilbertVars, mergeVars, artVars, spiralVars, samplerVars,
        runVars, viewVars, parseVars, baseVars, chVars>>
    \/ CacheImageOnerror /\ UNCHANGED <<hilbertVars, mergeVars, artVars, spiralVars,
        samplerVars, runVars, viewVars, parseVars, baseVars, chVars>>
    \/ CacheProcessImage /\ UNCHANGED <<hilbertVars, mergeVars, artVars, spiralVars,
        samplerVars, runVars, viewVars, parseVars, baseVars, chVars>>
    \/ CacheRunCore /\ UNCHANGED <<hilbertVars, mergeVars, artVars, spiralVars, samplerVars,
        runVars, viewVars, parseVars, baseVars, chVars>>
    \/ CacheRunRejected /\ UNCHANGED <<hilbertVars, mergeVars, artVars, spiralVars, samplerVars,
        runVars, viewVars, parseVars, baseVars, chVars>>
InitCache == CacheInit /\ HilbertIdle /\ MergeIdle /\ ArtIdle /\ SpiralIdle /\ SamplerIdle
        /\ RunIdle /\ ViewIdle /\ ParseIdle /\ BaseIdle /\ ChIdle
SpecCache == InitCache /\ [][NextCache]_vars

----------------------------------------------------------------------------
(* Claims *)

\* C1: for every order o, the indices 0 .. 4^o - 1 map to pairwise distinct
\* cells of the 2^o x 2^o grid, and once all indices are mapped every cell of
\* the grid has been hit (no duplicates, no omissions, none outside).
C1_HilbertBijection ==
    /\ Cardinality(visited) = d + 1
    /\ visited \subseteq Grid(order)
    /\ (d = Pow(4, order) - 1 => visited = Grid(order))

C1_Witness == order = 3 /\ d = Pow(4, order) - 1

\* C2: consecutive indices map to cells at Chebyshev distance exactly 1.
C2_HilbertLocality == d > 0 => Chebyshev(prevCell, cell) = 1

C2_Witness == order = 3 /\ d = 37 /\ cell = hilbert(3, 37) /\ prevCell = hilbert(3, 36)

----------------------------------------------------------------------------
(* Merge claims: vocabulary written independently of the merge operators *)

Merged == finalGcode # Null
TemplateLoaded == gcodeTemplateContent # Null /\ gcodeTemplateContent # <<>>

LowerChar(c) ==
    IF \E i \in 1 .. 26 : UpperChars[i] = c
    THEN LowerChars[CHOOSE i \in 1 .. 26 : UpperChars[i] = c]
    ELSE c

MARK_START_LOWER ==
    <<";", "s", "t", "a", "r", "t", "_", "a", "r", "t">>
MARK_END_LOWER ==
    <<";", "e", "n", "d", "_", "a", "r", "t">>
LINE_PAUSE ==
    <<";", " ", "-", "-", "-", " ", "M", "A", "N", "U", "A", "L", " ", "P",
      "A", "U", "S", "E", " ", "-", "-", "-">>
LINE_ART_OPEN ==
    <<";", " ", "-", "-", "-", " ", "S", "T", "A", "R", "T", " ", "A", "R",
      "T", "W", "O", "R", "K", " ", "-", "-", "-">>
LINE_ART_CLOSE ==
    <<";", " ", "-", "-", "-", " ", "E", "N", "D", " ", "A", "R", "T", "W",
      "O", "R", "K", " ", "-", "-", "-">>

\* the line contains the marker somewhere, letter case ignored
ContainsNoCase(line, markLower) ==
    \E i \in 0 .. (Len(line) - Len(markLower)) :
        \A j \in 1 .. Len(markLower) : LowerChar(line[i + j]) = markLower[j]

StartLines(tl) == {i \in 1 .. Len(tl) : ContainsNoCase(tl[i], MARK_START_LOWER)}
EndLines(tl) == {i \in 1 .. Len(tl) : ContainsNoCase(tl[i], MARK_END_LOWER)}
Last(S) == CHOOSE i \in S : \A j \in S : j <= i
CountLines(ls, P(_)) == Cardinality({i \in 1 .. Len(ls) : P(ls[i])})

\* the lines the merge inserts after the header line, for an artwork block art
InsertedLines(mode, art) ==
    (IF mode = "manual" THEN <<LINE_PAUSE, LINE_M600, <<>>>> ELSE <<>>)
        \o <<LINE_ART_OPEN>> \o SplitLines(art) \o <<LINE_ART_CLOSE>>

C3_ExpectedManual ==
    <<"A", "\n", ";", "S", "T", "A", "R", "T", "_", "A", "R", "T", "\n",
      ";", " ", "-", "-", "-", " ", "M", "A", "N", "U", "A", "L", " ", "P",
      "A", "U", "S", "E", " ", "-", "-", "-", "\n", "M", "6", "0", "0",
      "\n", "\n", ";", " ", "-", "-", "-", " ", "S", "T", "A", "R", "T",
      " ", "A", "R", "T", "W", "O", "R", "K", " ", "-", "-", "-", "\n",
      "A", "R", "T", "\n", ";", " ", "-", "-", "-", " ", "E", "N", "D",
      " ", "A", "R", "T", "W", "O", "R", "K", " ", "-", "-", "-", "\n",
      ";", "E", "N", "D", "_", "A", "R", "T", "\n", "B">>
C3_ExpectedOther ==
    <<"A", "\n", ";", "S", "T", "A", "R", "T", "_", "A", "R", "T", "\n",
      ";", " ", "-", "-", "-", " ", "S", "T", "A", "R", "T", " ", "A", "R",
      "T", "W", "O", "R", "K", " ", "-", "-", "-", "\n", "A", "R", "T",
      "\n", ";", " ", "-", "-", "-", " ", "E", "N", "D", " ", "A", "R",
      "T", "W", "O", "R", "K", " ", "-", "-", "-", "\n", ";", "E", "N",
      "D", "_", "A", "R", "T", "\n", "B">>
C3_ClaimHeader ==
    <<"A", "\n", ";", "S", "T", "A", "R", "T", "_", "A", "R", "T", "\n">>
C3_ClaimArtwork ==
    <<"\n", ";", " ", "-", "-", "-", " ", "S", "T", "A", "R", "T", " ",
      "A", "R", "T", "W", "O", "R", "K", " ", "-", "-", "-", "\n", "A",
      "R", "T", "\n", ";", " ", "-", "-", "-", " ", "E", "N", "D", " ",
      "A", "R", "T", "W", "O", "R", "K", " ", "-", "-", "-", "\n">>
C3_ClaimFooter ==
    <<";", "E", "N", "D", "_", "A", "R", "T", "\n", "B">>
C3_PauseBlock ==
    <<";", " ", "-", "-", "-", " ", "M", "A", "N", "U", "A", "L", " ", "P",
      "A", "U", "S", "E", " ", "-", "-", "-", "\n", "M", "6", "0", "0",
      "\n">>
C3_PauseBlockNL ==
    <<"\n", ";", " ", "-", "-", "-", " ", "M", "A", "N", "U", "A", "L",
      " ", "P", "A", "U", "S", "E", " ", "-", "-", "-", "\n", "M", "6",
      "0", "0", "\n">>

C3_Case == Merged /\ gcodeTemplateContent = TEMPLATE_ROUND_TRIP /\ artGcode = ART_ONE

\* C3 as stated: for the template "A\n;START_ART\nX\n;END_ART\nB" and the
\* artwork "ART" the output is "A\n;START_ART\n" + change directive (possibly
\* empty) + "\n; --- START ARTWORK ---\nART\n; --- END ARTWORK ---\n" +
\* ";END_ART\nB", for some reading of the change directive.
C3_AsStated ==
    C3_Case =>
        \E directive \in {<<>>, C3_PauseBlock, C3_PauseBlockNL} :
            finalGcode = C3_ClaimHeader \o directive \o C3_ClaimArtwork \o C3_ClaimFooter

\* C3 amended: the header is "A\n;START_ART" with no newline after the marker
\* line; the output is header + change directive ("\n; --- MANUAL PAUSE
\* ---\nM600\n" in manual mode, empty otherwise) + the artwork text + footer
\* ";END_ART\nB", and the line X between the markers is not in the output.
C3_MergeRoundTrip ==
    C3_Case =>
        /\ finalGcode = IF filamentChangeMode = "manual"
                        THEN C3_ExpectedManual ELSE C3_ExpectedOther
        /\ \A i \in 1 .. Len(SplitLines(finalGcode)) : SplitLines(finalGcode)[i] # <<"X">>

C3_Witness == C3_Case /\ filamentChangeMode = "ams"

C4_Case ==
    /\ Merged /\ TemplateLoaded
    /\ StartLines(SplitLines(gcodeTemplateContent)) # {}
    /\ EndLines(SplitLines(gcodeTemplateContent)) = {}

IsStartLine(l) == ContainsNoCase(l, MARK_START_LOWER)
IsArtOpenLine(l) == l = LINE_ART_OPEN

\* C4: with a start marker and no end marker nothing is discarded: the output
\* is the template's lines up to the start-marker line, the inserted block,
\* then the template's remaining lines, each exactly as often as in the
\* template; the artwork block occurs once.
C4_MissingEndKeepsAll ==
    C4_Case =>
        LET tl == SplitLines(gcodeTemplateContent)
            out == SplitLines(finalGcode)
            s == Last(StartLines(tl))
            rest == IF s = Len(tl) THEN <<<<>>>> ELSE SubSeq(tl, s + 1, Len(tl))
        IN  /\ out = SubSeq(tl, 1, s) \o InsertedLines(filamentChangeMode, artGcode) \o rest
            /\ CountLines(out, IsStartLine) = CountLines(tl, IsStartLine)
            /\ CountLines(out, IsArtOpenLine) = 1

C4_Witness ==
    /\ C4_Case
    /\ Len(SplitLines(gcodeTemplateContent)) = 3
    /\ Last(StartLines(SplitLines(gcodeTemplateContent))) = 2
    /\ CountLines(SplitLines(finalGcode), IsStartLine) = 1

C5_Case ==
    /\ Merged /\ TemplateLoaded
    /\ StartLines(SplitLines(gcodeTemplateContent)) = {}

C6_MarkerRecognition ==
    (Merged /\ TemplateLoaded) =>
        LET tl == SplitLines(gcodeTemplateContent)
            S == StartLines(tl)
            E == EndLines(tl)
        IN  /\ (FindMarker(tl, START_MARKER) # -1) = (S # {})
            /\ (FindMarker(tl, END_MARKER) # -1) = (E # {})
            /\ S # {} =>
                 LET s == Last(S)
                     footerFrom == IF E # {} /\ Last(E) > s THEN Last(E) ELSE s + 1
                 IN  /\ FindMarker(tl, START_MARKER) = s - 1
                     /\ finalGcode =
                          Join(SubSeq(tl, 1, s), <<"\n">>)
                            \o (IF filamentChangeMode = "manual" THEN C3_PauseBlockNL ELSE <<>>)
                            \o <<"\n">> \o LINE_ART_OPEN \o <<"\n">> \o artGcode
                            \o <<"\n">> \o LINE_ART_CLOSE \o <<"\n">>
                            \o Join(SubSeq(tl, footerFrom, Len(tl)), <<"\n">>)

\* a mixed-case start marker embedded in a line, and an end marker above it
C6_Witness ==
    /\ Merged /\ TemplateLoaded
    /\ LET tl == SplitLines(gcodeTemplateContent)
       IN  /\ Len(tl) = 3
           /\ tl[1] = L_END_LOWER
           /\ tl[2] = L_START_MIXED
           /\ tl[3] = L_A

----------------------------------------------------------------------------
(* Artwork claims.  gcode[1] is the positioning move to the start point;   *)
(* the artwork moves are gcode[2 ..].                                      *)

ArtRunning == pc \in {"path", "done"}
ArtMoves == 2 .. Len(gcode)

\* the closed region inside the base's inner boundary, for the base shape of
\* the pattern: the print rectangle (square for hilbert) inset by innerRadius
InsideInnerBoundary(x, y) ==
    LET side == IF cfg.pathType = "hilbert" THEN PrintDim(cfg) ELSE cfg.printWidth
        high == IF cfg.pathType = "hilbert" THEN PrintDim(cfg) ELSE cfg.printHeight
        left == IF cfg.pathType = "hilbert" THEN CenterOffset(cfg).x ELSE OffsetX(cfg)
        low == IF cfg.pathType = "hilbert" THEN CenterOffset(cfg).y ELSE OffsetY(cfg)
    IN  /\ left + innerRadius <= x /\ x <= left + side - innerRadius
        /\ low + innerRadius <= y /\ y <= low + high - innerRadius

\* C7: with a base configured, no printing artwork move (squiggle
\* sub-segments included) ends outside the base's inner boundary, the
\* boundary itself counting as inside.
C7_ClipContainment ==
    (ArtRunning /\ cfg.addCircularBase) =>
        \A i \in ArtMoves :
            gcode[i].kind = "G1" => InsideInnerBoundary(gcode[i].x, gcode[i].y)

\* C8: in text mode a sampled, non-connector point whose darkness equals the
\* threshold is printed at the max width and the slowest speed, and every
\* point whose sampled darkness is below the threshold is a travel move
\* without extrusion.
C8_TextThreshold ==
    (ArtRunning /\ cfg.textMode) =>
        \A i \in ArtMoves :
            /\ (gcode[i].dark = cfg.textThreshold /\ ~gcode[i].conn) =>
                  /\ gcode[i].kind = "G1"
                  /\ gcode[i].w = cfg.maxW
                  /\ gcode[i].f = cfg.minSpeed
                  /\ gcode[i].e > 0
            /\ (gcode[i].dark >= 0 /\ gcode[i].dark < cfg.textThreshold) =>
                  /\ gcode[i].kind = "G0"
                  /\ gcode[i].e = 0

\* one run in which both cases occur: a point exactly at the threshold that
\* is printed, and a lighter point that is travelled
C8_Witness ==
    /\ pc = "done" /\ cfg.textMode
    /\ \E i \in ArtMoves :
          gcode[i].dark = cfg.textThreshold /\ ~gcode[i].conn /\ gcode[i].kind = "G1"
    /\ \E i \in ArtMoves :
          gcode[i].dark >= 0 /\ gcode[i].dark < cfg.textThreshold /\ gcode[i].kind = "G0"

\* C9: for every valid spacing and every finite maximum radius the spiral
\* loop never performs more than MAX_LOOP_ITERATIONS iterations, and it
\* terminates.
C9_SpiralWithinCap ==
    /\ [](iterations <= MAX_LOOP_ITERATIONS)
    /\ <>(spiralPc = "done")

\* a run that only the cap stopped: the radius is still short of the maximum
C9_Witness ==
    /\ spiralPc = "done"
    /\ iterations = MAX_LOOP_ITERATIONS
    /\ radius < maxRadius
    /\ spiralWarned

\* length, volume of artwork move i: from the previous head position
MoveLength(i) == Hypot(gcode[i].x - gcode[i - 1].x, gcode[i].y - gcode[i - 1].y)
MoveVolume(i) == MoveLength(i) * gcode[i].w * cfg.layerHeight

RECURSIVE PrintedVolumeUpTo(_)
PrintedVolumeUpTo(i) ==
    IF i < 2 THEN 0
    ELSE PrintedVolumeUpTo(i - 1) + (IF gcode[i].kind = "G1" THEN MoveVolume(i) ELSE 0)

\* C10 as stated: every printing artwork move carries E = L*W*H/A within a
\* relative tolerance of 1e-9.  E is in units of 0.00001 mm, so the claim
\* |E/1000 - V/A| <= 1e-9 * V/A reads |E*A - 1000*V| <= 1000*V / 10^9.
C10_AsStated ==
    ArtRunning =>
        \A i \in ArtMoves :
            gcode[i].kind = "G1" =>
                Abs(gcode[i].e * FilArea(cfg) - 1000 * MoveVolume(i))
                    <= (1000 * MoveVolume(i)) \div 1000000000

\* C10 amended: every printing artwork move carries L*W*H/A rounded to five
\* decimals (it differs from L*W*H/A by at most 0.000005 mm), and what is
\* accumulated into the running total is the unrounded L*W*H/A.
C10_ExtrusionRounded ==
    ArtRunning =>
        /\ \A i \in ArtMoves :
              gcode[i].kind = "G1" =>
                 2 * Abs(gcode[i].e * FilArea(cfg) - 1000 * MoveVolume(i)) <= FilArea(cfg)
        /\ totalVol = PrintedVolumeUpTo(Len(gcode))

\* a printing move whose exact extrusion has more than five decimals
C10_Witness ==
    /\ pc = "done"
    /\ \E i \in ArtMoves :
          /\ gcode[i].kind = "G1"
          /\ gcode[i].e * FilArea(cfg) # 1000 * MoveVolume(i)


\* C11: for a fixed gamma and view, a larger source luminance at the sampled
\* position gives a strictly smaller darkness, and the darkness lies in
\* [0, 1].
C11_SamplerDecreasing ==
    sampleOut # NoSample =>
        /\ sampleOut.den = sampleOut.denB /\ sampleOut.den > 0
        /\ (sampleOut.lumA < sampleOut.lumB => sampleOut.num > sampleOut.numB)
        /\ (sampleOut.lumA > sampleOut.lumB => sampleOut.num < sampleOut.numB)
        /\ 0 <= sampleOut.num /\ sampleOut.num <= sampleOut.den
        /\ 0 <= sampleOut.numB /\ sampleOut.numB <= sampleOut.den

\* an interpolated sample under gamma 0.5 whose luminance rises by the
\* smallest step a pixel can make
C11_Witness ==
    /\ sampleOut # NoSample
    /\ sampleIn.gammaVal = 5 /\ sampleOut.interpolated
    /\ sampleOut.lumA < sampleOut.lumB
    /\ sampleOut.num > sampleOut.numB
    /\ sampleIn.pixelsA[1] = 0 /\ sampleIn.pixelsB[1] = 1


\* C12: from the acceptance of a trigger until the scheduled run has
\* finished there is at most one scheduled or executing run, and for that
\* whole interval the button is disabled and the busy indicator is shown.
C12_SingleRun ==
    /\ scheduled <= 1
    /\ (scheduled = 1 => btnDisabled /\ spinnerShown)

\* a second run was accepted after the first had finished, and is pending
C12_Witness ==
    /\ scheduled = 1 /\ runsStarted = 2
    /\ runLog.outcome = "done"


\* C13: after any sequence of image loads, drags and wheel events,
\* 1 <= imageZoom <= 10 and 0 <= offset <= 1 - 1/imageZoom on both axes, so
\* the viewed window [offset, offset + 1/zoom] lies within the source image.
C13_ViewWithinSource ==
    /\ ZOOM_MIN <= imageZoom /\ imageZoom <= ZOOM_MAX
    /\ 0 <= imageOffsetX /\ imageOffsetX * imageZoom + 10000 <= 1000 * imageZoom
    /\ 0 <= imageOffsetY /\ imageOffsetY * imageZoom + 10000 <= 1000 * imageZoom

\* zoomed in and panned off the origin on both axes, with the window's far
\* edge on the image's edge on one of them
C13_Witness ==
    /\ imageZoom > ZOOM_MIN
    /\ imageOffsetX = MaxOffset(imageZoom) /\ imageOffsetX > 0
    /\ imageOffsetY > 0 /\ imageOffsetY < MaxOffset(imageZoom)


\* C14: when the image is missing (none loaded successfully), the min line
\* width is not below the max, or the min speed is not below the max, the
\* failure is reported, no instruction is generated, nothing is published
\* and appState.gcodeContent keeps the value it had.
C14_ValidationStopsRun ==
    LET failure ==
            IF runLog.image = "null" THEN MSG_NO_IMAGE
            ELSE IF runLog.form.minW >= runLog.form.maxW THEN MSG_WIDTH
            ELSE IF runLog.form.minSpeedMMS >= runLog.form.maxSpeedMMS THEN MSG_SPEED
            ELSE IF runLog.image # "loaded" THEN MSG_RUN_ERROR
            ELSE ""
    IN  (runLog.outcome # "none" /\ failure # "") =>
            /\ runLog.reported = failure
            /\ ~runLog.generated /\ ~runLog.published
            /\ gcodeContent = runLog.before.content
            /\ outputArea = runLog.before.output

\* a run rejected for its speeds after an earlier run had published output
C14_Witness ==
    /\ runLog.outcome = "invalid_speed"
    /\ runLog.before.content > 0
    /\ gcodeContent = runLog.before.content


\* the latest run ended in the catch block and nothing was triggered since
RunFailed ==
    /\ runLog.outcome \in {"error", "image_unreadable"}
    /\ scheduled = 0

\* C15: when processImageCore raises an unexpected error, the error is shown
\* as a run-level failure, no output of the run is stored in gcodeContent or
\* the output area, and the UI is as before the run: button enabled with its
\* original label, busy indicator removed, download control as it was.
C15_AsStated ==
    RunFailed =>
        /\ runLog.reported = MSG_RUN_ERROR
        /\ gcodeContent = runLog.before.content
        /\ outputArea = runLog.before.output
        /\ ~btnDisabled /\ btnLabel = runLog.before.label
        /\ ~spinnerShown
        /\ downloadShown = runLog.before.download


\* C16: when the spiral or square-spiral loop reaches the iteration cap the
\* run goes on: the warning is logged, and the moves generated so far
\* followed by the trailer are published.
C16_CapIsNotFatal ==
    /\ []((spiralPc = "done" /\ iterations >= MAX_LOOP_ITERATIONS) =>
             /\ spiralWarned
             /\ spiralOut = [moves |-> spiralPoints, trailer |-> TRUE])
    /\ ((iterations >= MAX_LOOP_ITERATIONS) ~> (spiralPc = "done"))

\* a spiral run stopped by the cap has published what it had generated
C16_Witness ==
    /\ spiralPc = "done" /\ spiralKind = "spiral"
    /\ iterations = MAX_LOOP_ITERATIONS
    /\ spiralWarned
    /\ spiralOut.trailer /\ spiralOut.moves = MAX_LOOP_ITERATIONS


\* C17: every parameter a run uses lies within its valid range whatever the
\* raw input, and the print width and height used are > 0 and at most the
\* bed width and height used by the same run.
C17_AsStated ==
    /\ parsedLast.name # "none" =>
          parsedLast.min <= parsedLast.value /\ parsedLast.value <= parsedLast.max
    /\ parsed.printWidth # 0 =>
          0 < parsed.printWidth /\ parsed.printWidth <= parsed.bedWidth
    /\ parsed.printHeight # 0 =>
          0 < parsed.printHeight /\ parsed.printHeight <= parsed.bedHeight


\* the printing moves of the artwork emitted so far
PrintingMoves == {i \in DOMAIN gcode : gcode[i].kind = "G1"}

\* C18: outside text mode the target width does not decrease and the target
\* feed rate does not increase with darkness, over the whole darkness range
\* and between any two printing moves of a run; every printing move has its
\* width in [minW, maxW] and its feed rate in [minSpeed, maxSpeed].
C18_DarkerThickerSlower ==
    /\ pc = "start" =>
          \A dk \in 0..999 :
             /\ TargetW(cfg, dk) <= TargetW(cfg, dk + 1)
             /\ TargetF(cfg, dk) >= TargetF(cfg, dk + 1)
    /\ \A i \in PrintingMoves :
          /\ cfg.minW <= gcode[i].w /\ gcode[i].w <= cfg.maxW
          /\ cfg.minSpeed <= gcode[i].f /\ gcode[i].f <= cfg.maxSpeed
    /\ (pc = "done" /\ ~cfg.textMode) =>
          \A i, j \in PrintingMoves :
             gcode[i].dark <= gcode[j].dark =>
                /\ gcode[i].w <= gcode[j].w
                /\ gcode[i].f >= gcode[j].f

\* a finished run outside text mode with a lighter and a darker printing
\* move, the darker one wider and slower, neither at an end of the range
C18_Witness ==
    /\ pc = "done" /\ ~cfg.textMode
    /\ \E i, j \in PrintingMoves :
          /\ 0 < gcode[i].dark /\ gcode[i].dark < gcode[j].dark /\ gcode[j].dark < 1000
          /\ cfg.minW < gcode[i].w /\ gcode[i].w < gcode[j].w /\ gcode[j].w < cfg.maxW
          /\ gcode[i].f > gcode[j].f


\* the base generator's output, layer by layer
LayerStarts == {i \in DOMAIN baseOut : baseOut[i].op = "G1Z" /\ baseOut[i].n > 0}
LayerEnd(s) ==
    IF \E j \in LayerStarts : j > s
    THEN (CHOOSE j \in LayerStarts : j > s /\ \A k \in LayerStarts : k > s => j <= k) - 1
    ELSE Len(baseOut)
Retractions(s) == {i \in s..LayerEnd(s) : baseOut[i].op = "G1E" /\ baseOut[i].e < 0}
Primes(s) == {i \in s..LayerEnd(s) : baseOut[i].op = "G1E" /\ baseOut[i].e > 0}

\* C19: the base generator emits exactly baseLayers layers in order, each
\* made of three wall contours, then the retraction and a Z lift, then the
\* infill, then the closing Z lift; a layer has exactly one prime, after
\* the retraction and before the first infill printing move.
C19_LayerPhases ==
    basePc = "returned" =>
      /\ Cardinality(LayerStarts) = baseCfg.baseLayers
      /\ 2 \in LayerStarts
      /\ \A s \in LayerStarts :
            /\ baseOut[s].n = Cardinality({j \in LayerStarts : j <= s})
            /\ baseOut[s].z = baseCfg.zOffset + (baseOut[s].n - 1) * baseCfg.layerHeight
            /\ Cardinality(Retractions(s)) = 1
            /\ Cardinality(Primes(s)) = 1
            /\ LET r == CHOOSE i \in Retractions(s) : TRUE
                   p == CHOOSE i \in Primes(s) : TRUE
                   e == LayerEnd(s)
               IN  /\ r < p /\ p < e
                   /\ baseOut[s + 1].op = "G0XY"
                   /\ Cardinality({i \in (s + 1)..(r - 1) : baseOut[i].op = "G0XY"})
                         = NUM_WALLS
                   /\ \A i \in (s + 1)..(r - 1) : baseOut[i].op \in {"G0XY", "G1XYE"}
                   /\ baseOut[r + 1].op = "G0Z"
                   /\ \A i \in (r + 1)..(p - 1) : baseOut[i].op # "G1XYE"
                   /\ \A i \in (p + 1)..(e - 1) : baseOut[i].op = "G1XYE"
                   /\ baseOut[e].op = "G0Z"

\* a base of several layers has been generated whose layers all have wall
\* and infill printing moves
C19_Witness ==
    /\ basePc = "returned"
    /\ baseCfg.baseLayers >= 2
    /\ \A s \in LayerStarts :
          /\ baseOut[s + 2].op = "G1XYE"
          /\ \E p \in Primes(s) : baseOut[p + 1].op = "G1XYE"


\* C20: for every base shape the generator returns wall count x wall
\* spacing + the configured margin (3 x 0.42 mm + baseMargin).
C20_AsStated ==
    basePc = "returned" =>
       baseReturned = NUM_WALLS * WALL_SPACING + baseCfg.baseMargin


\* the position of a line in the instruction list (0: not there)
LineIndex(line) ==
    IF \E i \in DOMAIN chGcode : chGcode[i] = line
    THEN CHOOSE i \in DOMAIN chGcode :
            chGcode[i] = line /\ \A j \in DOMAIN chGcode : chGcode[j] = line => i <= j
    ELSE 0

\* the bed centre in the coordinates of the run: the print area is centred
\* on the bed
BedCentreLine ==
    G0XY(OffsetX(chCfg) + chCfg.printWidth \div 2, OffsetY(chCfg) + chCfg.printHeight \div 2)
        \o TEXT_PARK

\* C21: after the base, in manual mode the transition is retract, lift,
\* park at the bed centre (for either origin), M600, in this order; in
\* slot-select mode the drawing slot is selected and followed by a wait,
\* and the final output holds no M600.
C21_TransitionByMode ==
    /\ (chCfg.addCircularBase /\ chPc \in {"pattern", "trailer", "done"}) =>
          LET t == LineIndex(LINE_TRANSITION)
          IN  /\ t > LineIndex(LINE_BASE_HEADER) /\ LineIndex(LINE_BASE_HEADER) > 0
              /\ chCfg.changeMode = "manual" =>
                    /\ t < LineIndex(LINE_RETRACT)
                    /\ LineIndex(LINE_RETRACT) < LineIndex(LINE_LIFT)
                    /\ LineIndex(LINE_LIFT) < LineIndex(BedCentreLine)
                    /\ LineIndex(BedCentreLine) < LineIndex(LINE_M600)
              /\ chCfg.changeMode = "ams" =>
                    /\ t < LineIndex(chCfg.amsDrawingSlot)
                    /\ chGcode[LineIndex(chCfg.amsDrawingSlot) + 1] = LINE_M400
    /\ (chPc = "done" /\ chCfg.changeMode = "ams") =>
          /\ LineIndex(LINE_M600) = 0
          /\ ~Includes(chFinal, LINE_M600)

\* a finished manual-mode run with a base and the origin at the bed centre:
\* the park line is at X0 Y0 and is followed by M600
C21_Witness ==
    /\ chPc = "done"
    /\ chCfg.addCircularBase /\ chCfg.changeMode = "manual" /\ chCfg.originAtCenter
    /\ LineIndex(G0XY(0, 0) \o TEXT_PARK) > 0
    /\ chGcode[LineIndex(G0XY(0, 0) \o TEXT_PARK) + 1] = LINE_M600

\* the printing moves the generator's list gained in a step, and the moves
\* writeMove pushed in it
NewBaseLines == {i \in Len(baseOut) + 1 .. Len(baseOut') : baseOut'[i].op = "G1XYE"}
NewArtLines == {i \in Len(baseArt) + 1 .. Len(baseArt') : baseArt'[i].kind = "G1"}

\* where the head is before line i of the generator's list is run, for a
\* line pushed in the step
HeadBefore(i) ==
    IF i = Len(baseOut) + 1 THEN [x |-> basePrevX, y |-> basePrevY]
    ELSE [x |-> baseOut'[i - 1].x, y |-> baseOut'[i - 1].y]

\* the volume of line i of the generator's list at the base line width
BaseLineVolume(i) ==
    Hypot(baseOut'[i].x - HeadBefore(i).x, baseOut'[i].y - HeadBefore(i).y)
        * BASE_LINE_WIDTH * baseCfg.layerHeight

\* the volume of artwork move i at its own line width
ArtLineVolume(i) ==
    Hypot(baseArt'[i].x - basePrevX, baseArt'[i].y - basePrevY)
        * baseArt'[i].w * baseCfg.layerHeight

\* the sum of the values of a function with a finite domain
RECURSIVE SumOf(_)
SumOf(f) ==
    IF DOMAIN f = {} THEN 0
    ELSE LET k == CHOOSE j \in DOMAIN f : TRUE
         IN  f[k] + SumOf([j \in DOMAIN f \ {k} |-> f[j]])

ExtrusionAccounted ==
    /\ baseTotalE' = baseTotalE + SumOf([i \in NewBaseLines |-> BaseLineVolume(i)])
                                + SumOf([i \in NewArtLines |-> ArtLineVolume(i)])
    /\ \A i \in NewBaseLines :
          baseOut'[i].e = EFixed5(BaseLineVolume(i), FilArea(baseCfg))
    /\ \A i \in NewArtLines :
          baseArt'[i].e = EFixed5(ArtLineVolume(i), FilArea(baseCfg))
    /\ basePc' = "reported" =>
          baseReported' = TotalFixed2(baseTotalE', FilArea(baseCfg))

SampledAt(x, y) ==
    LET u == RoundDiv((x - OffsetX(cfg)) * 1000, cfg.printWidth)
        v_yup == RoundDiv((y - OffsetY(cfg)) * 1000, cfg.printHeight)
    IN  GetBrightnessAtUV(IF cfg.mirrorimage THEN 1000 - u ELSE u, v_yup, cfg.pixels,
                          cfg.anaW, cfg.anaH, cfg.gammaVal, imageZoom, imageOffsetX,
                          imageOffsetY)

\* C23 as stated: with the squiggle on, every printing, non-connector
\* artwork move (so every squiggle sub-segment) has the width and the speed
\* that the darkness sampled at its own end point gives.  doSmartMove
\* samples once, at the end of the original segment, and passes that width
\* and speed to every sub-segment.
C23_AsStated ==
    (ArtRunning /\ cfg.squiggleAmp > 1 /\ ~cfg.textMode) =>
        \A i \in ArtMoves :
            (gcode[i].kind = "G1" /\ ~gcode[i].conn) =>
                /\ gcode[i].w = TargetW(cfg, SampledAt(gcode[i].x, gcode[i].y))
                /\ gcode[i].f = TargetF(cfg, SampledAt(gcode[i].x, gcode[i].y))

SquareEnded == spiralKind = "squareSpiral" /\ spiralPc \in {"trailer", "done"}

\* the centre of the print square, from centerOffset: the centre of every
\* lap's square and of what is left of it
SquareCentre ==
    [x |-> currentOffset + currentSize \div 2, y |-> currentOffset + currentSize \div 2]

\* C24 as stated: whatever the print dimension and the spacing, the last
\* point the square spiral generates is the centre of what is left.
C24_AsStated == SquareEnded => squareLast = SquareCentre

\* C24 amended: every lap takes one spacing off each side of the square; the
\* laps end when at most 1.5 spacings are left (or at the cap); the centre of
\* what is left is generated as the final point when the size left is
\* positive, and when it is not the final point is the last lap's connector,
\* which is past the centre by half of the (negative) size left.
C24_SquareSpiralEnd ==
    /\ [](SquareEnded =>
            /\ 2 * currentSize <= 3 * spacing \/ iterations >= MAX_LOOP_ITERATIONS
            /\ currentSize > 0 => squareLast = SquareCentre
            /\ currentSize <= 0 =>
                  /\ squareLast = [x |-> currentOffset, y |-> currentOffset]
                  /\ 2 * (squareLast.x - SquareCentre.x) = -currentSize)
    /\ [][(spiralKind = "squareSpiral" /\ iterations' # iterations) =>
             /\ currentSize' = currentSize - 2 * spacing
             /\ currentOffset' = currentOffset + spacing]_vars

\* a 16 mm square at 10 mm spacing: one lap, -4 mm left, no centre point
C24_Witness ==
    /\ SquareEnded
    /\ iterations = 1 /\ currentSize = -400
    /\ squareLast # SquareCentre

\* C25 as stated: within the accepted ranges the spiral loop is always left
\* because the radius has reached the maximum radius, never because the
\* iteration cap was hit.
C25_AsStated ==
    (spiralKind = "spiral" /\ spiralPc \in {"after", "trailer", "done"}) =>
        /\ radius >= maxRadius
        /\ iterations < MAX_LOOP_ITERATIONS

\* the length of one sub-segment of the pattern's traversal: a zigzag line
\* is cut in ZigzagSegs pieces (line 1617), the hilbert curve steps by one
\* cell (line 1482), a side of the square spiral is cut by moveLine
SubSegment(c) ==
    IF c.pathType = "zigzag" THEN c.printWidth \div ZigzagSegs(c)
    ELSE IF c.pathType = "hilbert" THEN PrintDim(c) \div Pow(2, c.fractalOrder)
    ELSE PrintDim(c) \div MoveLineCalls(PrintDim(c))

\* C26 as stated: the head is put on the first point of the traversal, so
\* the first artwork move (here without the squiggle, where a doSmartMove
\* call is one move) is no longer than one sub-segment when it prints.  The
\* square spiral starts at the centre and its first lap at the corner.
C26_AsStated ==
    (ArtRunning /\ cfg.squiggleAmp = 0 /\ Len(gcode) >= 2 /\ gcode[2].kind = "G1") =>
        MoveLength(2) <= SubSegment(cfg)

\* how many lines of the final output are the pause directive
PausesInFinal ==
    Cardinality({i \in DOMAIN SplitLines(chFinal) : SplitLines(chFinal)[i] = LINE_M600})

\* C27 as stated: in manual mode the final output of a run holds at most one
\* M600 put there by the program (no template of the runs holds one).  With
\* a base and a template with the start marker, the transition and the merge
\* each insert one.
C27_AsStated ==
    (chPc = "done" /\ chCfg.changeMode = "manual") => PausesInFinal <= 1

\* C28: whenever the cache holds pixels they were decoded from the image
\* that is the current one, and the pixels a run samples are those of the
\* image current at the run, after any interleaving of file choices, reader
\* and decoder callbacks and runs.
C28_CacheIsCurrent ==
    /\ cachedPixels # NoPixels =>
          /\ cacheImage # NoImage
          /\ cachedPixels.from = cacheImage.id
          /\ cachedDimensions = [width |-> cacheImage.width, height |-> cacheImage.height]
    /\ runPixels # NoRunPixels => runPixels.pixelsFrom = runPixels.image

\* a run that used the cache of an image which replaced one of the same
\* width and height
C28_Witness ==
    /\ Len(installed) >= 2
    /\ installed[Len(installed)].width = installed[Len(installed) - 1].width
    /\ installed[Len(installed)].height = installed[Len(installed) - 1].height
    /\ runPixels # NoRunPixels /\ runPixels.hit
    /\ runPixels.image = installed[Len(installed)].id

\* C29: whenever the download control is displayed, gcodeContent is the
\* output of the most recently accepted run, that run has ended and ended
\* well; and whatever a click or Ctrl+S hands out is the output of the run
\* accepted last before it, which ended well.
C29_DownloadIsCurrent ==
    /\ downloadShown =>
          /\ runsStarted > 0 /\ gcodeContent = runsStarted
          /\ scheduled = 0
          /\ runLog.outcome = "done"
    /\ downloaded # NoDownload =>
          /\ downloaded.content = downloaded.latest
          /\ downloaded.outcome = "done" /\ downloaded.pending = 0

\* a download after a first run, then a second run that failed with the
\* first run's output still stored and the control hidden
C29_Witness ==
    /\ downloaded # NoDownload /\ downloaded.content = 1
    /\ runsStarted = 2 /\ scheduled = 0
    /\ runLog.outcome \in {"error", "image_unreadable"}
    /\ gcodeContent = 1
    /\ ~downloadShown

\* C30: two runs that ended without error with the same image, view and
\* parameters left the same instruction list and the same extrusion total,
\* whatever runs, ended or failed, came before them.
C30_HistoryFree ==
    \A i, j \in DOMAIN artHistory :
        (/\ artHistory[i].outcome = "done" /\ artHistory[j].outcome = "done"
         /\ artHistory[i].cfg = artHistory[j].cfg
         /\ artHistory[i].zoom = artHistory[j].zoom
         /\ artHistory[i].offX = artHistory[j].offX
         /\ artHistory[i].offY = artHistory[j].offY) =>
            /\ artHistory[i].gcode = artHistory[j].gcode
            /\ artHistory[i].totalVol = artHistory[j].totalVol

\* a run, then a failed run with another pattern, then the first run's
\* parameters again
C30_Witness ==
    /\ Len(artHistory) = 3
    /\ artHistory[1].outcome = "done" /\ artHistory[3].outcome = "done"
    /\ artHistory[2].outcome = "failed" /\ artHistory[2].cfg # artHistory[1].cfg
    /\ artHistory[3].cfg = artHistory[1].cfg
    /\ artHistory[3].totalVol > 0

====
